---- MODULE Spec2Model ----
(***************************************************************************)
(* Identity resolution and graph reconstruction engine of the              *)
(* "ambiguously" solver: candidate rooms, fingerprints, the exploration    *)
(* loop, duplicate removal / disambiguation and solution assembly,         *)
(* run against an oracle that answers plans from a fixed library graph.    *)
(***************************************************************************)
EXTENDS Integers, Sequences, FiniteSets, TLC

\* ------------------------------------------------------------------------
\* Basic domains
\* ------------------------------------------------------------------------
None == -1
NumDoors == 6
NumLabels == 4
Doors == 0..(NumDoors - 1)
Labels == 0..(NumLabels - 1)

\* a plan token is a door 0..5 or a label edit "[l]", encoded EditBase + l
EditBase == 10
Edit(l) == EditBase + l
IsEdit(tok) == tok >= EditBase

\* ------------------------------------------------------------------------
\* Sequence helpers (python list idioms)
\* ------------------------------------------------------------------------
Last(s) == s[Len(s)]
Prefix(s, n) == SubSeq(s, 1, n)
InSeq(x, s) == \E i \in 1..Len(s) : s[i] = x
Min(S) == CHOOSE x \in S : \A y \in S : x <= y
Max(S) == CHOOSE x \in S : \A y \in S : x >= y

\* index of the first element of s satisfying P, 0 when there is none
FirstIdx(s, P(_)) ==
    LET hits == {i \in 1..Len(s) : P(s[i])}
    IN IF hits = {} THEN 0 ELSE Min(hits)

\* list.remove(x) for objects compared by identity (the room id)
IdIsNot(r, id) == r.id # id
RemoveId(rooms, id) == SelectSeq(rooms, LAMBDA r : IdIsNot(r, id))

\* ------------------------------------------------------------------------
\* The oracle: mock_server.explore executes one plan on the library graph.
\* A graph is [n, label, conn, start]; nodes are 1..n.
\* ------------------------------------------------------------------------
RECURSIVE Walk(_, _, _, _)
Walk(g, labels, cur, plan) ==
    IF plan = <<>> THEN <<>>
    ELSE IF IsEdit(Head(plan))
         THEN LET v == Head(plan) - EditBase
              IN <<v>> \o Walk(g, [labels EXCEPT ![cur] = v], cur, Tail(plan))
         ELSE LET nxt == g.conn[cur][Head(plan)]
              IN <<labels[nxt]>> \o Walk(g, labels, nxt, Tail(plan))

\* every plan starts at the start node from a fresh copy of the labels
OracleExplore(g, plan) == <<g.label[g.start]>> \o Walk(g, g.label, g.start, plan)

\* the labels a plan leaves behind when its edits are kept
RECURSIVE LabelsAfter(_, _, _, _)
LabelsAfter(g, labels, cur, plan) ==
    IF plan = <<>> THEN labels
    ELSE IF IsEdit(Head(plan))
         THEN LabelsAfter(g, [labels EXCEPT ![cur] = Head(plan) - EditBase], cur, Tail(plan))
         ELSE LabelsAfter(g, labels, g.conn[cur][Head(plan)], Tail(plan))

RECURSIVE ExploreKeeping(_, _, _)
ExploreKeeping(g, labels, plans) ==
    IF plans = <<>> THEN <<>>
    ELSE << <<labels[g.start]>> \o Walk(g, labels, g.start, Head(plans)) >>
            \o ExploreKeeping(g, LabelsAfter(g, labels, g.start, Head(plans)), Tail(plans))

\* an oracle whose label edits outlive the plan that made them
mock_explore_persistent(g, plans) == ExploreKeeping(g, g.label, plans)
\* mock_server.explore: the loop over the plans of one request, one result
\* per plan
mock_explore(g, plans) == [i \in 1..Len(plans) |-> OracleExplore(g, plans[i])]

\* node reached by replaying a path of doors on the true graph
RECURSIVE NodeAt(_, _, _)
NodeAt(g, cur, path) ==
    IF path = <<>> THEN cur ELSE NodeAt(g, g.conn[cur][Head(path)], Tail(path))

\* ------------------------------------------------------------------------
\* ApiClient.parse_response_with_echoes
\* ------------------------------------------------------------------------
PlanEdits(plan) ==
    LET toks == SelectSeq(plan, IsEdit)
    IN [i \in 1..Len(toks) |-> toks[i] - EditBase]

RECURSIVE SplitEchoes(_, _, _)
SplitEchoes(all, expected, echo_index) ==
    IF all = <<>> THEN [actual |-> <<>>, echoes |-> <<>>]
    ELSE IF echo_index <= Len(expected) /\ Head(all) = expected[echo_index]
         THEN LET rest == SplitEchoes(Tail(all), expected, echo_index + 1)
              IN [actual |-> rest.actual, echoes |-> <<Head(all)>> \o rest.echoes]
         ELSE LET rest == SplitEchoes(Tail(all), expected, echo_index)
              IN [actual |-> <<Head(all)>> \o rest.actual, echoes |-> rest.echoes]

parse_response_with_echoes(plan, response) ==
    IF Len(PlanEdits(plan)) = 0
    THEN [actual |-> response, echoes |-> <<>>]
    ELSE SplitEchoes(response, PlanEdits(plan), 1)

\* ------------------------------------------------------------------------
\* Room
\* ------------------------------------------------------------------------
NewRoom(id, label) ==
    [id |-> id, label |-> label, paths |-> <<>>,
     door_labels |-> [d \in Doors |-> None],
     door_rooms |-> [d \in Doors |-> None],
     disambiguation_id |-> None, path_to_root |-> <<>>,
     path_from_root |-> <<>>, is_done |-> FALSE]

add_path(room, path) ==
    IF InSeq(path, room.paths) THEN room
    ELSE [room EXCEPT !.paths = Append(@, path)]

set_door_label(room, door, label) ==
    IF 0 <= door /\ door <= 5
    THEN [room EXCEPT !.door_labels = (door :> label) @@ @]
    ELSE room

is_complete(room) ==
    room.label # None /\ \A d \in Doors : room.door_labels[d] # None

get_unknown_doors(room) == {d \in Doors : room.door_labels[d] = None}

\* str(n) as character codes, for the ids the model can produce
Digit(n) == 48 + n
Str(n) == IF n < 10 THEN <<Digit(n)>> ELSE <<Digit(n \div 10), Digit(n % 10)>>
CharOrQ(v) == IF v = None THEN <<63>> ELSE Str(v)
Dash == <<45>>

get_fingerprint(room, include_disambiguation) ==
    CharOrQ(room.label) \o Dash
      \o CharOrQ(room.door_labels[0]) \o CharOrQ(room.door_labels[1])
      \o CharOrQ(room.door_labels[2]) \o CharOrQ(room.door_labels[3])
      \o CharOrQ(room.door_labels[4]) \o CharOrQ(room.door_labels[5])
      \o (IF include_disambiguation
          THEN Dash \o CharOrQ(room.disambiguation_id) ELSE <<>>)

\* python string order
RECURSIVE StrLess(_, _)
StrLess(a, b) ==
    IF b = <<>> THEN FALSE
    ELSE IF a = <<>> THEN TRUE
    ELSE IF Head(a) # Head(b) THEN Head(a) < Head(b)
    ELSE StrLess(Tail(a), Tail(b))

\* ------------------------------------------------------------------------
\* RoomManager.  A store is a record:
\*   rooms  : possible_rooms, a list of Room records (id = object identity)
\*   nid    : next object identity
\*   calls  : batches handed to ApiClient.explore during the current
\*            operation, each a list of plans (history)
\*   merges : merges done during the current operation,
\*            [keeper, victim, verdict, complete, keeper_paths, victim_paths,
\*            paths_after], the two paths fields as they were before the
\*            merge (history)
\*   overwrites : door labels replaced by a different label during the
\*            current operation, [id, door, old, new, by] (history)
\*   foc    : calls of find_or_create_room_for_path during the current
\*            operation (history)
\*   probes : disambiguation probes sent during the current operation,
\*            [a, b, a_paths, b_paths, verdict]: the label of a was edited,
\*            the probe ended at b (history)
\*   returns : calls of discover_return_door (kind "return_door") and of
\*            Room.calculate_backlink (kind "backlink") that sent their six
\*            probes during the current operation: [kind, from_path,
\*            forward_door, temp_label, found (door or None), from_label,
\*            before, after] with the door labels of parent and child
\*            before and after the call (history)
\*   batches : what get_next_exploration_batch returned during the current
\*            operation: [priority, plans, work] with the set of rules that
\*            had work when it was called (history)
\*   different : pairs <<a, b>> of room ids for which a disambiguation probe
\*            ended with verdict "different" (history of the whole run)
\* ------------------------------------------------------------------------
EmptyStore ==
    [rooms |-> <<>>, nid |-> 1, calls |-> <<>>, merges |-> <<>>,
     overwrites |-> <<>>, foc |-> <<>>, probes |-> <<>>, returns |-> <<>>,
     batches |-> <<>>, different |-> {}]

ResetHistory(st) ==
    [st EXCEPT !.calls = <<>>, !.merges = <<>>, !.overwrites = <<>>, !.foc = <<>>,
               !.probes = <<>>, !.returns = <<>>, !.batches = <<>>]

IdxOfId(rooms, id) == FirstIdx(rooms, LAMBDA r : r.id = id)
RoomOfId(rooms, id) == rooms[IdxOfId(rooms, id)]
HasId(rooms, id) == IdxOfId(rooms, id) # 0
RoomIds(rooms) == [i \in 1..Len(rooms) |-> rooms[i].id]

get_complete_rooms(rooms) == SelectSeq(rooms, is_complete)
get_incomplete_rooms(rooms) == SelectSeq(rooms, LAMBDA r : ~is_complete(r))

\* the small-topology consolidation of find_or_create_room_for_path
ConsolidationApplies(rooms, path, room_count) ==
    Len(path) = 1 /\ Len(rooms) <= room_count /\ room_count <= 3

find_or_create_room_for_path(st, path, label, room_count) ==
    LET rooms == st.rooms
        exact == FirstIdx(rooms, LAMBDA r : InSeq(path, r.paths) /\ r.label = label)
        cons  == FirstIdx(rooms, LAMBDA r : r.label = label
                                   /\ \E i \in 1..Len(r.paths) : Len(r.paths[i]) = 1)
    IN IF exact # 0
       THEN [st |-> st, idx |-> exact, created |-> FALSE]
       ELSE IF ConsolidationApplies(rooms, path, room_count) /\ cons # 0
       THEN [st |-> [st EXCEPT !.rooms[cons] = add_path(@, path)],
             idx |-> cons, created |-> FALSE]
       ELSE [st |-> [st EXCEPT !.rooms = Append(@, add_path(NewRoom(st.nid, label), path)),
                              !.nid = @ + 1],
             idx |-> Len(rooms) + 1, created |-> TRUE]

\* fingerprint -> absolute id: rank of the fingerprint among the sorted
\* fingerprints of the complete rooms
CompleteFingerprints(rooms) ==
    {get_fingerprint(rooms[i], TRUE) : i \in {j \in 1..Len(rooms) : is_complete(rooms[j])}}

\* a mapping that numbers the fingerprints in the order of their first
\* candidate in possible_rooms, without sorting them
get_absolute_room_mapping_unsorted(rooms) ==
    [fp \in CompleteFingerprints(rooms) |->
        Cardinality({o \in CompleteFingerprints(rooms) :
            \E i \in 1..Len(rooms) :
                /\ is_complete(rooms[i])
                /\ get_fingerprint(rooms[i], TRUE) = o
                /\ \A j \in 1..i : get_fingerprint(rooms[j], TRUE) # fp})]

get_absolute_room_mapping(rooms) ==
    [fp \in CompleteFingerprints(rooms) |->
        Cardinality({o \in CompleteFingerprints(rooms) : StrLess(o, fp)})]

\* does the observation show a move through `door` from the end of from_path,
\* with the label seen behind the door
ObsShowsDoor(obs, from_path, door) ==
    /\ Len(obs.plan) >= 1 /\ Len(obs.rooms) >= 2
    /\ Len(obs.plan) > Len(from_path)
    /\ Prefix(obs.plan, Len(from_path)) = from_path
    /\ obs.plan[Len(from_path) + 1] = door
    /\ Len(obs.rooms) > Len(from_path) + 1

\* first <<o, p, r>> in loop order (observation, path of from_room, room)
\* for which room r is the complete destination; <<>> when there is none
DoorDestinationHit(rooms, observations, from_room, door) ==
    LET hits == {t \in (1..Len(observations)) \X (1..Len(from_room.paths)) \X (1..Len(rooms)) :
                    LET obs == observations[t[1]]
                        fp  == from_room.paths[t[2]]
                        r   == rooms[t[3]]
                    IN /\ ObsShowsDoor(obs, fp, door)
                       /\ is_complete(r)
                       /\ r.label = obs.rooms[Len(fp) + 2]
                       /\ InSeq(Prefix(obs.plan, Len(fp) + 1), r.paths)}
        Before(a, b) == \/ a[1] < b[1]
                        \/ a[1] = b[1] /\ a[2] < b[2]
                        \/ a[1] = b[1] /\ a[2] = b[2] /\ a[3] <= b[3]
    IN IF hits = {} THEN <<>>
       ELSE CHOOSE t \in hits : \A u \in hits : Before(t, u)

get_door_destination_fingerprint(rooms, observations, from_room, door) ==
    LET hit == DoorDestinationHit(rooms, observations, from_room, door)
    IN IF hit = <<>> THEN <<>> ELSE get_fingerprint(rooms[hit[3]], TRUE)

\* one entry of get_absolute_connections
AbsoluteConnection(rooms, observations, room, door) ==
    LET fp == get_door_destination_fingerprint(rooms, observations, room, door)
    IN IF ~is_complete(room) THEN None
       ELSE IF fp # <<>> /\ fp \in CompleteFingerprints(rooms)
       THEN get_absolute_room_mapping(rooms)[fp]
       ELSE None

get_absolute_connections(rooms, observations, room) ==
    [d \in Doors |-> AbsoluteConnection(rooms, observations, room, d)]

\* first label of `order` that differs from both labels, None when none does
ChooseEditLabel(order, l1, l2) ==
    LET i == FirstIdx(order, LAMBDA c : c # l1 /\ c # l2)
    IN IF i = 0 THEN None ELSE order[i]

\* RoomManager.disambiguate_rooms_with_path_navigation: TRUE in `different`
\* when the rooms are taken to be different; `verdict` tells why, `plans`
\* is what was sent to the oracle
disambiguate_rooms_with_path_navigation(g, room_a, room_b) ==
    LET Verdict(edit_label, plan, actual) ==
            IF actual = <<>>
            THEN [different |-> TRUE, verdict |-> "no_result", plans |-> <<plan>>]
            ELSE IF Last(actual) = room_b.label
            THEN [different |-> TRUE, verdict |-> "different", plans |-> <<plan>>]
            ELSE IF Last(actual) = edit_label
            THEN [different |-> FALSE, verdict |-> "same", plans |-> <<plan>>]
            ELSE [different |-> FALSE, verdict |-> "unclear", plans |-> <<plan>>]
        Send(edit_label, plan) ==
            Verdict(edit_label, plan,
                    parse_response_with_echoes(plan, OracleExplore(g, plan)).actual)
        Navigate(edit_label) ==
            IF edit_label = None
            THEN [different |-> FALSE, verdict |-> "no_edit_label", plans |-> <<>>]
            ELSE IF room_a.path_to_root = <<>>
            THEN [different |-> FALSE, verdict |-> "no_path_to_root", plans |-> <<>>]
            ELSE Send(edit_label,
                      room_a.paths[1] \o <<Edit(edit_label)>> \o room_a.path_to_root
                          \o room_b.paths[1])
    IN IF room_a.paths = <<>> \/ room_b.paths = <<>>
       THEN [different |-> FALSE, verdict |-> "no_paths", plans |-> <<>>]
       ELSE Navigate(ChooseEditLabel(<<2, 3, 1, 0>>, room_a.label, room_b.label))

LogCalls(st, plans) ==
    IF plans = <<>> THEN st ELSE [st EXCEPT !.calls = Append(@, plans)]

\* the outcome d of a disambiguation of rooms a and b, kept in the history
LogProbe(st, room_a, room_b, d) ==
    IF d.plans = <<>> THEN st
    ELSE [st EXCEPT !.probes = Append(@, [a |-> room_a.id, b |-> room_b.id,
                                          a_paths |-> room_a.paths,
                                          b_paths |-> room_b.paths,
                                          verdict |-> d.verdict])]

LogVerdict(st, a, b, d) ==
    LET st1 == LogProbe(LogCalls(st, d.plans), RoomOfId(st.rooms, a),
                        RoomOfId(st.rooms, b), d)
    IN IF d.verdict = "different"
       THEN [st1 EXCEPT !.different = @ \cup {<<a, b>>}]
       ELSE st1

\* add every path of `victim` to room id `keeper` (python: for path in
\* room.paths: keeper.add_path(path))
RECURSIVE AddPaths(_, _)
AddPaths(room, paths) ==
    IF paths = <<>> THEN room ELSE AddPaths(add_path(room, Head(paths)), Tail(paths))

\* a merge that records the victim without taking its paths
MergePathsIntoKeeperOnly(st, keeper, victim, verdict) ==
    [st EXCEPT !.merges = Append(@, [keeper |-> keeper, victim |-> victim.id,
                                     verdict |-> verdict,
                                     complete |-> is_complete(RoomOfId(st.rooms, keeper))
                                                  /\ is_complete(victim),
                                     keeper_paths |-> RoomOfId(st.rooms, keeper).paths,
                                     victim_paths |-> victim.paths,
                                     paths_after |-> RoomOfId(st.rooms, keeper).paths])]

MergePathsInto(st, keeper, victim, verdict) ==
    LET k == IdxOfId(st.rooms, keeper)
        Merged(room) ==
            [st EXCEPT !.rooms[k] = room,
                       !.merges = Append(@, [keeper |-> keeper, victim |-> victim.id,
                                             verdict |-> verdict,
                                             complete |-> is_complete(st.rooms[k])
                                                          /\ is_complete(victim),
                                             keeper_paths |-> st.rooms[k].paths,
                                             victim_paths |-> victim.paths,
                                             paths_after |-> room.paths])]
    IN Merged(AddPaths(st.rooms[k], victim.paths))

RemoveRoom(st, id) == [st EXCEPT !.rooms = RemoveId(@, id)]

\* door_rooms holds, for each door, the id of the candidate the door was
\* found to lead to (None when unset)
SetDoorRoom(room, door, id) == [room EXCEPT !.door_rooms = (door :> id) @@ @]

\* Room.unique_or_merged, the loops over range(6) that follow a merge: the
\* canonical room takes the door_rooms of `self` it does not have itself,
\* and (rewrite) the first reference back to `self` in the room behind such
\* a door is pointed at the canonical room
RECURSIVE CopyDoorRoomsFrom(_, _, _, _, _)
CopyDoorRoomsFrom(rooms, keeper, self, rewrite, door) ==
    LET k == IdxOfId(rooms, keeper)
        target == self.door_rooms[door]
        BackDoors(rs) ==
            IF rewrite /\ HasId(rs, target)
            THEN {b \in Doors : RoomOfId(rs, target).door_rooms[b] = self.id}
            ELSE {}
        Rewritten(rs, back) ==
            IF back = {} THEN rs
            ELSE [rs EXCEPT ![IdxOfId(rs, target)] = SetDoorRoom(@, Min(back), keeper)]
        Copied(rs) == Rewritten(rs, BackDoors(rs))
    IN IF door >= NumDoors THEN rooms
       ELSE IF target # None /\ rooms[k].door_rooms[door] = None
       THEN CopyDoorRoomsFrom(Copied([rooms EXCEPT ![k] = SetDoorRoom(@, door, target)]),
                              keeper, self, rewrite, door + 1)
       ELSE CopyDoorRoomsFrom(rooms, keeper, self, rewrite, door + 1)

CopyDoorRooms(st, keeper, self, rewrite) ==
    [st EXCEPT !.rooms = CopyDoorRoomsFrom(@, keeper, self, rewrite, 0)]

SetDid(st, id, v) ==
    [st EXCEPT !.rooms[IdxOfId(st.rooms, id)].disambiguation_id = v]

\* groups of complete rooms by base fingerprint, in order of first appearance
BaseFp(r) == get_fingerprint(r, FALSE)

RECURSIVE GroupByBaseFp(_, _)
GroupByBaseFp(rooms, groups) ==
    IF rooms = <<>> THEN groups
    ELSE LET r == Head(rooms)
             gi == FirstIdx(groups, LAMBDA grp : grp.fp = BaseFp(r))
         IN IF ~is_complete(r) THEN GroupByBaseFp(Tail(rooms), groups)
            ELSE IF gi = 0
            THEN GroupByBaseFp(Tail(rooms), Append(groups, [fp |-> BaseFp(r), ids |-> <<r.id>>]))
            ELSE GroupByBaseFp(Tail(rooms), [groups EXCEPT ![gi].ids = Append(@, r.id)])

BaseFingerprintGroups(rooms) == GroupByBaseFp(rooms, <<>>)

find_identical_fingerprints(rooms) ==
    SelectSeq(BaseFingerprintGroups(rooms), LAMBDA grp : Len(grp.ids) > 1)

RECURSIVE AssignZeroToUnique(_, _)
AssignZeroToUnique(st, groups) ==
    IF groups = <<>> THEN st
    ELSE LET grp == Head(groups)
             id == grp.ids[1]
         IN IF Len(grp.ids) = 1 /\ RoomOfId(st.rooms, id).disambiguation_id = None
            THEN AssignZeroToUnique(SetDid(st, id, 0), Tail(groups))
            ELSE AssignZeroToUnique(st, Tail(groups))

assign_initial_disambiguation_ids(st) ==
    AssignZeroToUnique(st, BaseFingerprintGroups(st.rooms))

\* --- RoomManager.remove_duplicate_rooms ---------------------------------
\* test room_test against the confirmed distinct rooms, in order; stops at
\* the first one it is found the same as
RECURSIVE TestAgainstConfirmed(_, _, _, _)
TestAgainstConfirmed(g, st, confirmed, test_id) ==
    LET Outcome(d, st1) ==
            IF ~d.different
            THEN [st |-> st1, same |-> TRUE, verdict |-> d.verdict]
            ELSE TestAgainstConfirmed(g, st1, Tail(confirmed), test_id)
        Judge(d) == Outcome(d, LogVerdict(st, Head(confirmed), test_id, d))
    IN IF confirmed = <<>> THEN [st |-> st, same |-> FALSE, verdict |-> "none"]
       ELSE Judge(disambiguate_rooms_with_path_navigation(
                      g, RoomOfId(st.rooms, Head(confirmed)), RoomOfId(st.rooms, test_id)))

\* the incremental pass over one group: acc = [st, confirmed, next, verdicts]
RECURSIVE IncrementalPass(_, _, _)
IncrementalPass(g, acc, ids) ==
    LET id == Head(ids)
        Decide(t) ==
            IF t.same
            THEN IncrementalPass(g, [acc EXCEPT !.st = t.st,
                                        !.verdicts = Append(@, [id |-> id, verdict |-> t.verdict])],
                                 Tail(ids))
            ELSE IncrementalPass(g, [st |-> SetDid(t.st, id, acc.next),
                                     confirmed |-> Append(acc.confirmed, id),
                                     next |-> acc.next + 1,
                                     verdicts |-> acc.verdicts],
                                 Tail(ids))
    IN IF ids = <<>> THEN acc
       ELSE Decide(TestAgainstConfirmed(g, SetDid(acc.st, id, None), acc.confirmed, id))

\* merge each listed room into keeper and remove it from possible_rooms
RECURSIVE MergeAndRemove(_, _, _, _)
MergeAndRemove(st, keeper, ids, verdicts) ==
    IF ids = <<>> THEN st
    ELSE LET id == Head(ids)
             vi == FirstIdx(verdicts, LAMBDA v : v.id = id)
             verdict == IF vi = 0 THEN "none" ELSE verdicts[vi].verdict
         IN IF HasId(st.rooms, id)
            THEN MergeAndRemove(RemoveRoom(MergePathsInto(st, keeper, RoomOfId(st.rooms, id), verdict), id),
                                keeper, Tail(ids), verdicts)
            ELSE MergeAndRemove(st, keeper, Tail(ids), verdicts)

DedupeGroup(g, st, grp) ==
    LET keeper == grp.ids[1]
        Finish(pass) ==
            LET to_merge == SelectSeq(grp.ids, LAMBDA id : ~InSeq(id, pass.confirmed))
                ZeroKeeper(merged) ==
                    IF RoomOfId(merged.rooms, keeper).disambiguation_id = None
                    THEN SetDid(merged, keeper, 0) ELSE merged
                Rest(merged) ==
                    IF Len(pass.confirmed) > 1 THEN merged
                    ELSE MergeAndRemove(ZeroKeeper(merged), keeper, Tail(grp.ids), pass.verdicts)
            IN Rest(IF to_merge # <<>> /\ pass.confirmed # <<>>
                    THEN MergeAndRemove(pass.st, pass.confirmed[1], to_merge, pass.verdicts)
                    ELSE pass.st)
    IN Finish(IncrementalPass(g, [st |-> st, confirmed |-> <<>>, next |-> 0, verdicts |-> <<>>],
                              grp.ids))

RECURSIVE DedupeGroups(_, _, _)
DedupeGroups(g, st, groups) ==
    IF groups = <<>> THEN st
    ELSE DedupeGroups(g, DedupeGroup(g, st, Head(groups)), Tail(groups))

remove_duplicate_rooms(g, st) ==
    LET st1 == assign_initial_disambiguation_ids(st)
    IN DedupeGroups(g, st1, find_identical_fingerprints(st1.rooms))

\* --- RoomManager.cleanup_all_partial_rooms_when_complete ----------------
AllConnectionsVerified(rooms, observations) ==
    \A i \in 1..Len(rooms) :
        is_complete(rooms[i]) =>
            \A d \in Doors : AbsoluteConnection(rooms, observations, rooms[i], d) # None

cleanup_all_partial_rooms_when_complete(st, observations, room_count) ==
    IF /\ Len(get_complete_rooms(st.rooms)) = room_count
       /\ AllConnectionsVerified(st.rooms, observations)
    THEN [st EXCEPT !.rooms = get_complete_rooms(@)]
    ELSE st

\* --- RoomManager.systematic_room_disambiguation -------------------------
SixDoorPlans(path) == [i \in 1..NumDoors |-> Append(path, i - 1)]

\* RoomManager._get_potential_adjacent_labels: <<>> stands for None
PotentialAdjacentLabels(g, path) ==
    [d \in Doors |-> OracleExplore(g, Append(path, d))[Len(path) + 2]]

\* test the freshly completed room against the matching complete rooms
\* acc = [st, did, merged]
RECURSIVE TestAgainstMatching(_, _, _, _)
TestAgainstMatching(g, acc, matching, inc_id) ==
    LET Outcome(ex, inc, d, st1) ==
            IF ~d.different
            THEN [st |-> RemoveRoom(MergePathsInto(st1, ex.id, inc, d.verdict), inc_id),
                  did |-> acc.did, merged |-> TRUE]
            ELSE TestAgainstMatching(g,
                    [st |-> st1,
                     did |-> IF ex.disambiguation_id # None
                             THEN Max({acc.did, ex.disambiguation_id + 1}) ELSE 1,
                     merged |-> FALSE],
                    Tail(matching), inc_id)
        Judge(ex, inc, d) == Outcome(ex, inc, d, LogVerdict(acc.st, ex.id, inc_id, d))
        Probe(ex, inc) == Judge(ex, inc, disambiguate_rooms_with_path_navigation(g, ex, inc))
    IN IF matching = <<>> THEN acc
       ELSE Probe(RoomOfId(acc.st.rooms, Head(matching)), RoomOfId(acc.st.rooms, inc_id))

RECURSIVE ZeroMissingDids(_, _)
ZeroMissingDids(st, ids) ==
    IF ids = <<>> THEN st
    ELSE IF RoomOfId(st.rooms, Head(ids)).disambiguation_id = None
         THEN ZeroMissingDids(SetDid(st, Head(ids), 0), Tail(ids))
         ELSE ZeroMissingDids(st, Tail(ids))

\* one turn of the loop over the incomplete rooms; acc = [st, complete]
SystematicStep(g, acc, inc_id) ==
    LET inc == RoomOfId(acc.st.rooms, inc_id)
        Decide(st1, matching, t) ==
            IF matching = <<>>
            THEN [st |-> SetDid(st1, inc_id, 0), complete |-> Append(acc.complete, inc_id)]
            ELSE IF t.merged THEN [st |-> t.st, complete |-> acc.complete]
            ELSE [st |-> ZeroMissingDids(SetDid(t.st, inc_id, t.did), matching),
                  complete |-> Append(acc.complete, inc_id)]
        Test(st1, matching) ==
            Decide(st1, matching,
                   TestAgainstMatching(g, [st |-> st1, did |-> 0, merged |-> FALSE],
                                       matching, inc_id))
        Probed(st1) ==
            Test(st1, SelectSeq(acc.complete,
                                LAMBDA c : BaseFp(RoomOfId(st1.rooms, c))
                                             = BaseFp(RoomOfId(st1.rooms, inc_id))))
        Probe(path) ==
            Probed(LogCalls([acc.st EXCEPT !.rooms[IdxOfId(acc.st.rooms, inc_id)].door_labels =
                                               PotentialAdjacentLabels(g, path)],
                            SixDoorPlans(path)))
    IN IF Len(inc.paths) = 0 \/ inc.paths[1] = <<>> THEN acc
       ELSE Probe(inc.paths[1])

RECURSIVE SystematicLoop(_, _, _)
SystematicLoop(g, acc, inc_ids) ==
    IF inc_ids = <<>> THEN acc
    ELSE SystematicLoop(g, SystematicStep(g, acc, Head(inc_ids)), Tail(inc_ids))

systematic_room_disambiguation(g, st) ==
    SystematicLoop(g, [st |-> st, complete |-> RoomIds(get_complete_rooms(st.rooms))],
                   RoomIds(get_incomplete_rooms(st.rooms))).st

\* --- slowly RoomManager.can_trace_path_to_complete_room -----------------
\* replay of a path through the complete rooms' door labels; returns the
\* index of the room the replay ends in, 0 for None
NextTraceRoom(rooms, target_label, current_path) ==
    LET cands == {i \in 1..Len(rooms) : is_complete(rooms[i]) /\ rooms[i].label = target_label}
        overlap == {i \in cands : \E k \in 1..Len(rooms[i].paths) :
                        LET q == rooms[i].paths[k]
                        IN \/ Len(q) <= Len(current_path) /\ q = Prefix(current_path, Len(q))
                           \/ Len(current_path) <= Len(q) /\ current_path = Prefix(q, Len(current_path))}
    IN IF cands = {} THEN 0
       ELSE IF Cardinality(cands) = 1 THEN Min(cands)
       ELSE IF overlap # {} THEN Min(overlap)
       ELSE Min(cands)

RECURSIVE TraceFrom(_, _, _, _)
TraceFrom(rooms, cur, done, rest) ==
    IF rest = <<>> THEN cur
    ELSE IF ~is_complete(rooms[cur]) \/ rooms[cur].door_labels[Head(rest)] = None THEN 0
    ELSE LET nxt == NextTraceRoom(rooms, rooms[cur].door_labels[Head(rest)],
                                  Append(done, Head(rest)))
         IN IF nxt = 0 THEN 0 ELSE TraceFrom(rooms, nxt, Append(done, Head(rest)), Tail(rest))

can_trace_path_to_complete_room(rooms, partial_path) ==
    LET start == FirstIdx(rooms, LAMBDA r : is_complete(r) /\ InSeq(<<>>, r.paths))
    IN IF partial_path = <<>> \/ start = 0 THEN 0
       ELSE TraceFrom(rooms, start, <<>>, partial_path)

\* ------------------------------------------------------------------------
\* Problem
\* ------------------------------------------------------------------------
\* find_or_create_room_for_path as called by the engine, with the call
\* recorded in the history
FindOrCreate(st, path, label, room_count) ==
    LET Logged(r, exact, traced) ==
            [r EXCEPT !.st.foc = Append(@,
                [path |-> path, label |-> label,
                 exact |-> IF exact = 0 THEN 0 ELSE st.rooms[exact].id,
                 traced |-> IF traced = 0 THEN 0 ELSE st.rooms[traced].id,
                 created |-> r.created,
                 ret |-> r.st.rooms[r.idx].id,
                 count_before |-> Len(st.rooms),
                 count_after |-> Len(r.st.rooms),
                 path_added |-> InSeq(path, r.st.rooms[r.idx].paths),
                 ret_paths |-> r.st.rooms[r.idx].paths])]
    IN Logged(find_or_create_room_for_path(st, path, label, room_count),
              FirstIdx(st.rooms, LAMBDA x : InSeq(path, x.paths) /\ x.label = label),
              can_trace_path_to_complete_room(st.rooms, path))

\* current_room.set_door_label(door, label) with the history entry
RecordDoor(st, idx, door, label, by) ==
    LET old == st.rooms[idx].door_labels[door]
        Logged(st1) ==
            IF old # None /\ old # label
            THEN [st1 EXCEPT !.overwrites = Append(@, [id |-> st.rooms[idx].id, door |-> door,
                                                       old |-> old, new |-> label, by |-> by])]
            ELSE st1
    IN Logged([st EXCEPT !.rooms[idx] = set_door_label(@, door, label)])

\* Problem.discover_return_door
ReturnDoorPlans(from_path, temp_label, forward_door) ==
    [i \in 1..NumDoors |-> from_path \o <<Edit(temp_label), forward_door, i - 1>>]

ReturnDoorFound(g, plans, temp_label) ==
    FirstIdx(plans, LAMBDA plan :
        LET actual == parse_response_with_echoes(plan, OracleExplore(g, plan)).actual
        IN actual # <<>> /\ Last(actual) = temp_label)

\* no probe ended with the temporary label: a message is printed
ReturnDoorNotFound(st, to_idx, plans) == LogCalls(st, plans)

discover_return_door(g, st, from_idx, to_idx, forward_door) ==
    LET from_room == st.rooms[from_idx]
        to_room == st.rooms[to_idx]
        Logged(temp_label, found, st1) ==
            [st1 EXCEPT !.returns = Append(@,
                [kind |-> "return_door",
                 from_path |-> from_room.paths[1], forward_door |-> forward_door,
                 temp_label |-> temp_label,
                 found |-> IF found = 0 THEN None ELSE found - 1,
                 from_label |-> from_room.label,
                 before |-> <<from_room.door_labels, to_room.door_labels>>,
                 after |-> <<st1.rooms[from_idx].door_labels,
                             st1.rooms[to_idx].door_labels>>])]
        Record(plans, found) ==
            IF found = 0 THEN ReturnDoorNotFound(st, to_idx, plans)
            ELSE RecordDoor(LogCalls(st, plans), to_idx, found - 1, from_room.label, "return_door")
        Probe(temp_label, plans) ==
            LET Found(found) == Logged(temp_label, found, Record(plans, found))
            IN Found(ReturnDoorFound(g, plans, temp_label))
        With(temp_label) ==
            IF temp_label = None THEN st
            ELSE Probe(temp_label, ReturnDoorPlans(from_room.paths[1], temp_label, forward_door))
    IN IF from_room.paths = <<>> \/ to_room.paths = <<>> THEN st
       ELSE With(ChooseEditLabel(<<0, 1, 2, 3>>, from_room.label, to_room.label))

\* one turn of the loop of Problem.process_observation over the path;
\* acc = [st, cur] with cur the index of current_room
ProcessStep(g, acc, path, rooms_seen, i, room_count) ==
    LET door == path[i]
        destination_label == rooms_seen[i + 1]
        was_door_unknown == acc.st.rooms[acc.cur].door_labels[door] = None
        Arrive(f) ==
            [st |-> IF /\ was_door_unknown
                       /\ is_complete(f.st.rooms[acc.cur])
                       /\ Len(f.st.rooms[f.idx].paths) = 1
                    THEN discover_return_door(g, f.st, acc.cur, f.idx, door)
                    ELSE f.st,
             cur |-> f.idx]
    IN IF i + 1 <= Len(rooms_seen)
       THEN Arrive(FindOrCreate(RecordDoor(acc.st, acc.cur, door, destination_label, "observation"),
                                Prefix(path, i), destination_label, room_count))
       ELSE acc

RECURSIVE ProcessSteps(_, _, _, _, _, _)
ProcessSteps(g, acc, path, rooms_seen, i, room_count) ==
    IF i > Len(path) THEN acc
    ELSE ProcessSteps(g, ProcessStep(g, acc, path, rooms_seen, i, room_count),
                      path, rooms_seen, i + 1, room_count)

process_observation(g, st, path, rooms_seen, room_count) ==
    LET Start(f) ==
            ProcessSteps(g, [st |-> f.st, cur |-> f.idx], path, rooms_seen, 1, room_count).st
    IN IF rooms_seen = <<>> THEN st
       ELSE Start(FindOrCreate(st, <<>>, rooms_seen[1], room_count))

\* ------------------------------------------------------------------------
\* ExplorationStrategy
\* ------------------------------------------------------------------------
\* get_door_destination_info: <<destination_path, destination_label>> of the
\* first observation (then first path of from_room) showing the door
get_door_destination_info(observations, from_room, door) ==
    LET hits == {t \in (1..Len(observations)) \X (1..Len(from_room.paths)) :
                    ObsShowsDoor(observations[t[1]], from_room.paths[t[2]], door)}
        first == CHOOSE t \in hits : \A u \in hits :
                    t[1] < u[1] \/ (t[1] = u[1] /\ t[2] <= u[2])
        obs == observations[first[1]]
        n == Len(from_room.paths[first[2]])
    IN IF hits = {} THEN <<>>
       ELSE <<Prefix(obs.plan, n + 1), obs.rooms[n + 2]>>

find_room_by_path_and_label(rooms, path, label) ==
    FirstIdx(rooms, LAMBDA r : r.label = label /\ InSeq(path, r.paths))

\* <<room index, door>> of complete rooms (with paths) whose absolute
\* connection through the door is unknown, in loop order
UnknownConnectionDoors(rooms, observations) ==
    {rd \in (1..Len(rooms)) \X Doors :
        /\ is_complete(rooms[rd[1]])
        /\ rooms[rd[1]].paths # <<>>
        /\ AbsoluteConnection(rooms, observations, rooms[rd[1]], rd[2]) = None}

FirstPair(S) == CHOOSE a \in S : \A b \in S : a[1] < b[1] \/ (a[1] = b[1] /\ a[2] <= b[2])

UnexploredDoorPaths(base, explored) ==
    SelectSeq(SixDoorPlans(base), LAMBDA q : q \notin explored)

\* the first entry of get_unknown_connections_to_verify as a list of paths
\* to explore: the batch completing the blocking partial room, or the
\* direct exploration of the door
FirstUnknownConnection(rooms, observations, explored) ==
    LET Paths(rd, info, dest) ==
            IF /\ info # <<>>
               /\ dest # 0
               /\ ~is_complete(rooms[dest])
               /\ UnexploredDoorPaths(info[1], explored) # <<>>
            THEN UnexploredDoorPaths(info[1], explored)
            ELSE <<Append(rooms[rd[1]].paths[1], rd[2])>>
        Dest(rd, info) ==
            Paths(rd, info, IF info = <<>> THEN 0
                            ELSE find_room_by_path_and_label(rooms, info[1], info[2]))
        First(rd) == Dest(rd, get_door_destination_info(observations, rooms[rd[1]], rd[2]))
    IN First(FirstPair(UnknownConnectionDoors(rooms, observations)))

\* get_missing_connections_from_complete_rooms
MissingConnectionDoors(rooms, explored) ==
    {rd \in (1..Len(rooms)) \X Doors :
        /\ is_complete(rooms[rd[1]])
        /\ rooms[rd[1]].paths # <<>>
        /\ ~\E j \in 1..Len(rooms) :
               rooms[j].label = rooms[rd[1]].door_labels[rd[2]] /\ is_complete(rooms[j])
        /\ Append(rooms[rd[1]].paths[1], rd[2]) \notin explored}

\* get_partial_rooms_to_explore
PartialExplorationDoors(rooms, explored) ==
    {rd \in (1..Len(rooms)) \X Doors :
        /\ ~is_complete(rooms[rd[1]])
        /\ rooms[rd[1]].paths # <<>>
        /\ Append(rooms[rd[1]].paths[1], rd[2]) \notin explored}

\* fourth priority: the first incomplete room with paths, all its unknown doors
FallbackRoom(rooms) ==
    FirstIdx(rooms, LAMBDA r : ~is_complete(r) /\ get_unknown_doors(r) # {} /\ r.paths # <<>>)

FallbackPlans(room) ==
    LET doors == SelectSeq([i \in 1..NumDoors |-> i - 1],
                           LAMBDA d : room.door_labels[d] = None)
    IN [i \in 1..Len(doors) |-> Append(room.paths[1], doors[i])]

\* the rules of get_next_exploration_batch whose list is not empty
RulesWithWork(rooms, observations, explored) ==
    {k \in 1..4 :
        \/ k = 1 /\ UnknownConnectionDoors(rooms, observations) # {}
        \/ k = 2 /\ MissingConnectionDoors(rooms, explored) # {}
        \/ k = 3 /\ PartialExplorationDoors(rooms, explored) # {}
        \/ k = 4 /\ FallbackRoom(rooms) # 0}

\* a scheduler that serves the incomplete rooms before anything else
get_next_exploration_batch_fallback_first(rooms, observations, explored) ==
    IF FallbackRoom(rooms) # 0
    THEN [priority |-> 4, plans |-> FallbackPlans(rooms[FallbackRoom(rooms)])]
    ELSE IF UnknownConnectionDoors(rooms, observations) # {}
    THEN [priority |-> 1, plans |-> FirstUnknownConnection(rooms, observations, explored)]
    ELSE [priority |-> 0, plans |-> <<>>]

\* get_next_exploration_batch: [priority, plans]; priority 0 stands for None
get_next_exploration_batch(rooms, observations, explored) ==
    LET DoorPlan(rd) == <<Append(rooms[rd[1]].paths[1], rd[2])>>
        Fallback(r) ==
            IF r # 0
            THEN [priority |-> 4, plans |-> FallbackPlans(rooms[r])]
            ELSE [priority |-> 0, plans |-> <<>>]
        Partial(S) ==
            IF S # {}
            THEN [priority |-> 3, plans |-> DoorPlan(FirstPair(S))]
            ELSE Fallback(FallbackRoom(rooms))
        Missing(S) ==
            IF S # {}
            THEN [priority |-> 2, plans |-> DoorPlan(FirstPair(S))]
            ELSE Partial(PartialExplorationDoors(rooms, explored))
    IN IF UnknownConnectionDoors(rooms, observations) # {}
       THEN [priority |-> 1, plans |-> FirstUnknownConnection(rooms, observations, explored)]
       ELSE Missing(MissingConnectionDoors(rooms, explored))

\* ------------------------------------------------------------------------
\* Problem.explore: eng = [st, observations, explored]
\* ------------------------------------------------------------------------
\* a filter that lets every plan through
should_explore_always(explored, plan) == TRUE

should_explore_path(explored, plan) == plan \notin explored

RECURSIVE ProcessResults(_, _, _, _, _)
ProcessResults(g, eng, plans, results, room_count) ==
    LET Record(plan, rooms_result) ==
            ProcessResults(g,
                [eng EXCEPT !.observations = Append(@, [plan |-> plan, rooms |-> rooms_result]),
                            !.st = process_observation(g, eng.st, plan, rooms_result, room_count)],
                Tail(plans), Tail(results), room_count)
    IN IF plans = <<>> THEN eng
       ELSE Record(Head(plans), Head(results))

\* the filter loop of Problem.explore: a plan is kept when it is not yet in
\* explored_paths and is marked explored at once; acc = [new_plans, explored]
RECURSIVE FilterPlans(_, _)
FilterPlans(acc, plans) ==
    IF plans = <<>> THEN acc
    ELSE IF should_explore_path(acc.explored, Head(plans))
         THEN FilterPlans([new_plans |-> Append(acc.new_plans, Head(plans)),
                           explored |-> acc.explored \cup {Head(plans)}], Tail(plans))
         ELSE FilterPlans(acc, Tail(plans))

explore(g, eng, plans, room_count) ==
    LET Run(f) ==
            IF f.new_plans = <<>> THEN eng
            ELSE ProcessResults(g, [eng EXCEPT !.explored = f.explored,
                                               !.st = LogCalls(@, f.new_plans)],
                                f.new_plans, mock_explore(g, f.new_plans), room_count)
    IN Run(FilterPlans([new_plans |-> <<>>, explored |-> eng.explored], plans))

\* the loop of Problem.explore over zip(plans, results) for results that are
\* not what the oracle owes: zip stops at the shorter list, and each sequence
\* is recorded and processed as far as it goes
RECURSIVE ProcessZipped(_, _, _, _, _)
ProcessZipped(g, eng, plans, results, room_count) ==
    IF plans = <<>> \/ results = <<>> THEN eng
    ELSE ProcessZipped(g,
             [eng EXCEPT !.observations = Append(@, [plan |-> Head(plans), rooms |-> Head(results)]),
                         !.st = process_observation(g, eng.st, Head(plans), Head(results), room_count)],
             Tail(plans), Tail(results), room_count)

\* what a faulty oracle returns for a batch: one sequence missing, or the
\* first sequence one label short
MalformedResults(g, plans, fault) ==
    LET results == mock_explore(g, plans)
    IN IF fault = "fewer_sequences" THEN SubSeq(results, 1, Len(results) - 1)
       ELSE [results EXCEPT ![1] = SubSeq(@, 1, Len(@) - 1)]

\* Problem.explore on a batch answered by a faulty oracle
explore_malformed(g, eng, plans, fault, room_count) ==
    LET Run(f) ==
            IF f.new_plans = <<>> THEN eng
            ELSE ProcessZipped(g, [eng EXCEPT !.explored = f.explored,
                                              !.st = LogCalls(@, f.new_plans)],
                               f.new_plans, MalformedResults(g, f.new_plans, fault), room_count)
    IN Run(FilterPlans([new_plans |-> <<>>, explored |-> eng.explored], plans))

\* Problem.explore_incomplete_rooms: one batch of the scheduler, then the
\* duplicate removal and the clean-up of partial rooms
explore_incomplete_rooms(g, eng, room_count) ==
    LET Finish(e1) ==
            [e1 EXCEPT !.st = cleanup_all_partial_rooms_when_complete(
                                  remove_duplicate_rooms(g, e1.st), e1.observations, room_count)]
        Logged(batch) ==
            [eng EXCEPT !.st.batches = Append(@,
                [priority |-> batch.priority, plans |-> batch.plans,
                 work |-> RulesWithWork(eng.st.rooms, eng.observations, eng.explored)])]
        Run(batch) ==
            IF batch.priority = 0 THEN eng
            ELSE Finish(explore(g, Logged(batch), batch.plans, room_count))
    IN Run(get_next_exploration_batch(eng.st.rooms, eng.observations, eng.explored))

\* --- RoomManager.detect_and_resolve_ambiguous_rooms ---------------------
RECURSIVE NumberGroup(_, _, _)
NumberGroup(st, ids, i) ==
    IF ids = <<>> THEN st
    ELSE NumberGroup(SetDid(st, Head(ids), i), Tail(ids), i + 1)

RECURSIVE NumberGroups(_, _)
NumberGroups(st, groups) ==
    IF groups = <<>> THEN st
    ELSE NumberGroups(NumberGroup(st, Head(groups).ids, 0), Tail(groups))

detect_and_resolve_ambiguous_rooms(st) ==
    NumberGroups(st, find_identical_fingerprints(st.rooms))

\* ------------------------------------------------------------------------
\* SolutionGenerator.generate_solution(filename, problem)
\* `problem` carries the stored connections, a set of entries
\* [from_fp, from_door, to_fp, to_door] with one entry per (from_fp, from_door)
\* ------------------------------------------------------------------------
NoProblem == [present |-> FALSE, connections |-> {}]
ProblemWith(entries) == [present |-> TRUE, connections |-> entries]

\* problem.get_connection(fp, door): <<to_fp, to_door>>, <<>> for None
get_connection(problem, fp, door) ==
    LET hits == {e \in problem.connections : e.from_fp = fp /\ e.from_door = door}
    IN IF hits = {} THEN <<>>
       ELSE LET e == CHOOSE x \in hits : TRUE IN <<e.to_fp, e.to_door>>

ConnectionRecord(from_index, from_door, to_index, to_door) ==
    [from |-> [room |-> from_index, door |-> from_door],
     to |-> [room |-> to_index, door |-> to_door]]

\* the records appended for one stored connection, forward direction only
AppendedRecordsOneWay(from_index, from_door, to_index, to_door) ==
    <<ConnectionRecord(from_index, from_door, to_index, to_door)>>

\* the records appended for one stored connection: one for a self-loop,
\* both directions otherwise
AppendedRecords(from_index, from_door, to_index, to_door) ==
    IF from_index = to_index /\ from_door = to_door
    THEN <<ConnectionRecord(from_index, from_door, to_index, to_door)>>
    ELSE <<ConnectionRecord(from_index, from_door, to_index, to_door),
           ConnectionRecord(to_index, to_door, from_index, from_door)>>

\* absolute_id_to_room: the last complete room holding the fingerprint of
\* absolute id a
AbsoluteIdToRoom(rooms, a) ==
    LET complete == get_complete_rooms(rooms)
        mapping == get_absolute_room_mapping(rooms)
    IN complete[Max({i \in 1..Len(complete) :
                        mapping[get_fingerprint(complete[i], TRUE)] = a})]

\* one turn of the loops over from_abs_id and from_door;
\* acc = [connections, processed, added]
AssembleDoor(rooms, problem, acc, from_abs_id, from_door) ==
    LET mapping == get_absolute_room_mapping(rooms)
        from_fp == get_fingerprint(AbsoluteIdToRoom(rooms, from_abs_id), TRUE)
        connection == get_connection(problem, from_fp, from_door)
        to_fp == connection[1]
        to_door == connection[2]
        to_index == mapping[to_fp]
        conn1 == <<from_abs_id, from_door, to_index, to_door>>
        conn2 == <<to_index, to_door, from_abs_id, from_door>>
        processed1 == acc.processed \cup {<<from_fp, from_door>>, <<to_fp, to_door>>}
    IN IF <<from_fp, from_door>> \in acc.processed THEN acc
       ELSE IF connection = <<>> THEN acc
       ELSE IF to_fp \notin DOMAIN mapping THEN acc
       ELSE IF conn1 \notin acc.added /\ conn2 \notin acc.added
       THEN [connections |-> acc.connections
                               \o AppendedRecords(from_abs_id, from_door, to_index, to_door),
             processed |-> processed1,
             added |-> acc.added \cup {conn1, conn2}]
       ELSE [acc EXCEPT !.processed = processed1]

RECURSIVE AssembleFrom(_, _, _, _)
AssembleFrom(rooms, problem, acc, i) ==
    IF i >= NumDoors * Cardinality(CompleteFingerprints(rooms)) THEN acc
    ELSE AssembleFrom(rooms, problem,
                      AssembleDoor(rooms, problem, acc, i \div NumDoors, i % NumDoors),
                      i + 1)

\* startingRoom: the first room (in insertion order of absolute_id_to_room)
\* with the empty path and disambiguation id 0, else the first with the
\* empty path, else 0
StartingRoom(rooms) ==
    LET complete == get_complete_rooms(rooms)
        mapping == get_absolute_room_mapping(rooms)
        firsts == SelectSeq([i \in 1..Len(complete) |-> i],
                     LAMBDA i : ~\E j \in 1..(i - 1) :
                         get_fingerprint(complete[j], TRUE) = get_fingerprint(complete[i], TRUE))
        order == [k \in 1..Len(firsts) |-> mapping[get_fingerprint(complete[firsts[k]], TRUE)]]
        original == FirstIdx(order, LAMBDA a :
                        /\ InSeq(<<>>, AbsoluteIdToRoom(rooms, a).paths)
                        /\ AbsoluteIdToRoom(rooms, a).disambiguation_id = 0)
        fallback == FirstIdx(order, LAMBDA a : InSeq(<<>>, AbsoluteIdToRoom(rooms, a).paths))
    IN IF original # 0 THEN order[original]
       ELSE IF fallback # 0 THEN order[fallback]
       ELSE 0

NoSolution ==
    [status |-> "none", rooms |-> <<>>, startingRoom |-> 0, connections |-> <<>>]

\* evaluating len(problem.connections) on problem = None raises before
\* anything is emitted; with no complete room the file is written and the
\* closing print of rooms_array[startingRoom] raises
generate_solution(rooms, problem) ==
    IF ~problem.present
    THEN [NoSolution EXCEPT !.status = "AttributeError"]
    ELSE [status |-> IF CompleteFingerprints(rooms) = {} THEN "IndexError" ELSE "emitted",
          rooms |-> [k \in 1..Cardinality(CompleteFingerprints(rooms)) |->
                        AbsoluteIdToRoom(rooms, k - 1).label],
          startingRoom |-> StartingRoom(rooms),
          connections |-> AssembleFrom(rooms, problem,
                              [connections |-> <<>>, processed |-> {}, added |-> {}],
                              0).connections]

\* ------------------------------------------------------------------------
\* Problem.explore_systematic and the Room methods it drives.  The registry
\* all_rooms is the `rooms` of a working store; a child room gets its object
\* identity from `nid`.  door_rooms is written only, and is left out.
\* ------------------------------------------------------------------------
peek_adjacent_rooms(g, room) ==
    IF room.paths = <<>> THEN [d \in Doors |-> None]
    ELSE PotentialAdjacentLabels(g, room.paths[1])

PeekPlans(room) ==
    IF room.paths = <<>> THEN <<>> ELSE SixDoorPlans(room.paths[1])

BacklinkPlans(parent_path, edit_label, step_to_self) ==
    [i \in 1..NumDoors |-> parent_path \o <<Edit(edit_label), step_to_self, i - 1>>]

\* Room.calculate_backlink: the first door whose raw response ends with the
\* edit label (None when there is none), and the plans sent
calculate_backlink(g, self, parent_room) ==
    LET NoLink == [door |-> None, plans |-> <<>>]
        Found(plans, i) ==
            [door |-> IF i = 0 THEN None ELSE i - 1, plans |-> plans]
        Scan(edit_label, plans) ==
            Found(plans, FirstIdx(mock_explore(g, plans), LAMBDA result_data :
                                     Last(result_data) = edit_label))
        Link(parent_path, self_path, edit_label) ==
            IF edit_label = None THEN NoLink
            ELSE IF /\ Len(self_path) = Len(parent_path) + 1
                    /\ Prefix(self_path, Len(parent_path)) = parent_path
            THEN Scan(edit_label,
                      BacklinkPlans(parent_path, edit_label, Last(self_path)))
            ELSE NoLink
    IN IF parent_room.paths = <<>> \/ self.paths = <<>> THEN NoLink
       ELSE Link(parent_room.paths[1], self.paths[1],
                 ChooseEditLabel(<<1, 2, 3, 0>>, parent_room.label, self.label))

\* Room._test_rooms_are_same: `fatal` stands for the RuntimeError; `verdict`
\* names the label the probe ended with (the edit label: "same", the label of
\* other_room: "different", any other label: "unclear")
test_rooms_are_same(g, self, other_room) ==
    LET Fatal == [fatal |-> TRUE, same |-> FALSE, verdict |-> "fatal", plans |-> <<>>]
        Verdict(edit_label, plan, actual) ==
            IF actual = <<>> THEN Fatal
            ELSE [fatal |-> FALSE,
                  same |-> Last(actual) = edit_label,
                  verdict |-> IF Last(actual) = edit_label THEN "same"
                              ELSE IF Last(actual) = other_room.label THEN "different"
                              ELSE "unclear",
                  plans |-> <<plan>>]
        Send(edit_label, plan) ==
            Verdict(edit_label, plan,
                    parse_response_with_echoes(plan, OracleExplore(g, plan)).actual)
        Test(edit_label) ==
            IF edit_label = None THEN Fatal
            ELSE Send(edit_label,
                      self.path_from_root \o <<Edit(edit_label)>> \o self.path_to_root
                          \o other_room.path_from_root)
    IN IF self.path_from_root = <<>> /\ other_room.path_from_root = <<>> THEN Fatal
       ELSE IF self.path_to_root = <<>> /\ self.path_from_root # <<>> THEN Fatal
       ELSE Test(ChooseEditLabel(<<1, 2, 3, 0>>, self.label, other_room.label))

\* the outcome t of a test of the child `self` against `other`, kept in the
\* history
LogTest(st, self, other, t) ==
    LET st1 == LogProbe(LogCalls(st, t.plans), self, other, t)
    IN IF t.verdict = "different"
       THEN [st1 EXCEPT !.different = @ \cup {<<self.id, other.id>>}]
       ELSE st1

\* the loop of unique_or_merged over the similar rooms: canonical is the id
\* of the room the child was found the same as, None when there is none
RECURSIVE TestAgainstSimilar(_, _, _, _)
TestAgainstSimilar(g, st, self, similar) ==
    LET Outcome(other, t, st1) ==
            IF t.fatal THEN [st |-> st1, fatal |-> TRUE, canonical |-> None]
            ELSE IF t.same
            THEN [st |-> CopyDoorRooms(MergePathsInto(st1, other.id, self, t.verdict),
                                       other.id, self, TRUE),
                  fatal |-> FALSE, canonical |-> other.id]
            ELSE TestAgainstSimilar(g, st1, self, Tail(similar))
        Judge(other, t) == Outcome(other, t, LogTest(st, self, other, t))
        Probe(other) == Judge(other, test_rooms_are_same(g, self, other))
    IN IF similar = <<>> THEN [st |-> st, fatal |-> FALSE, canonical |-> None]
       ELSE Probe(RoomOfId(st.rooms, Head(similar)))

\* Room.unique_or_merged: the canonical room, whether it is the child itself
\* (is_new), and whether the test raised
unique_or_merged(g, st, self) ==
    LET similar == RoomIds(SelectSeq(st.rooms, LAMBDA r : BaseFp(r) = BaseFp(self)))
        Self(room) == [st |-> st, fatal |-> FALSE, canonical |-> room, is_new |-> TRUE]
        Existing(st1, id) ==
            [st |-> st1, fatal |-> FALSE, canonical |-> RoomOfId(st1.rooms, id),
             is_new |-> FALSE]
        Settle(t) ==
            IF t.fatal
            THEN [st |-> t.st, fatal |-> TRUE, canonical |-> self, is_new |-> FALSE]
            ELSE IF t.canonical # None THEN Existing(t.st, t.canonical)
            ELSE Existing(CopyDoorRooms(MergePathsInto(t.st, Head(similar), self,
                                                       "not_same"),
                                        Head(similar), self, FALSE),
                          Head(similar))
    IN IF get_unknown_doors(self) # {} THEN Self(self)
       ELSE IF similar = <<>> THEN Self([self EXCEPT !.disambiguation_id = 0])
       ELSE Settle(TestAgainstSimilar(g, st, self, similar))

\* one door of the room under exploration; acc = [st, queue, fatal]
SystematicDoor(g, acc, cur_id, door) ==
    LET current == RoomOfId(acc.st.rooms, cur_id)
        child_path == (IF current.paths # <<>> THEN current.paths[1] ELSE <<>>)
                          \o <<door>>
        child_room == [add_path(NewRoom(acc.st.nid, current.door_labels[door]), child_path)
                          EXCEPT !.path_from_root = current.path_from_root \o <<door>>]
        DoorSet(rooms, canonical_id) ==
            [rooms EXCEPT ![IdxOfId(rooms, cur_id)] = SetDoorRoom(@, door, canonical_id)]
        Place(u) ==
            IF u.fatal THEN [st |-> u.st, queue |-> acc.queue, fatal |-> TRUE]
            ELSE [st |-> IF u.is_new
                         THEN [u.st EXCEPT !.rooms = Append(DoorSet(@, u.canonical.id),
                                                            u.canonical)]
                         ELSE [u.st EXCEPT !.rooms = DoorSet(@, u.canonical.id)],
                  queue |-> IF u.canonical.is_done THEN acc.queue
                            ELSE Append(acc.queue, u.canonical.id),
                  fatal |-> FALSE]
        LogBacklink(child, b, st1) ==
            IF b.plans = <<>> THEN st1
            ELSE [st1 EXCEPT !.returns = Append(@,
                     [kind |-> "backlink",
                      from_path |-> current.paths[1], forward_door |-> door,
                      temp_label |-> ChooseEditLabel(<<1, 2, 3, 0>>, current.label, child.label),
                      found |-> b.door,
                      from_label |-> current.label,
                      before |-> <<current.door_labels, child.door_labels>>,
                      after |-> <<current.door_labels, child.door_labels>>])]
        Linked(child, b, st1) ==
            Place(unique_or_merged(g, LogBacklink(child, b, LogCalls(st1, b.plans)),
                     IF b.door = None THEN child
                     ELSE [child EXCEPT !.path_to_root = <<b.door>> \o current.path_to_root]))
        Peeked(child) ==
            Linked(child, calculate_backlink(g, child, current),
                   LogCalls([acc.st EXCEPT !.nid = @ + 1], PeekPlans(child)))
    IN Peeked([child_room EXCEPT !.door_labels = peek_adjacent_rooms(g, child_room)])

RECURSIVE SystematicDoors(_, _, _, _)
SystematicDoors(g, acc, cur_id, door) ==
    IF door >= NumDoors \/ acc.fatal THEN acc
    ELSE SystematicDoors(g, SystematicDoor(g, acc, cur_id, door), cur_id, door + 1)

\* max_iterations of explore_systematic
SystematicMaxIterations == 1000

OfficialRooms(rooms) ==
    SelectSeq(rooms, LAMBDA r : is_complete(r) /\ r.disambiguation_id # None)

RECURSIVE SystematicQueue(_, _, _, _)
SystematicQueue(g, acc, room_count, iter) ==
    LET cur_id == Head(acc.queue)
        Progress(marked) ==
            IF Len(OfficialRooms(marked.st.rooms)) >= room_count THEN marked
            ELSE SystematicQueue(g, marked, room_count, iter + 1)
        SetDone(a) ==
            IF a.fatal THEN a
            ELSE Progress([a EXCEPT !.st.rooms[IdxOfId(a.st.rooms, cur_id)].is_done = TRUE])
    IN IF acc.queue = <<>> \/ iter >= SystematicMaxIterations THEN acc
       ELSE IF RoomOfId(acc.st.rooms, cur_id).is_done
       THEN SystematicQueue(g, [acc EXCEPT !.queue = Tail(@)], room_count, iter + 1)
       ELSE SetDone(SystematicDoors(g, [acc EXCEPT !.queue = Tail(@)], cur_id, 0))

\* Problem.explore_systematic: the store afterwards and whether the call
\* raised; when it raises, possible_rooms is not replaced and only the root
\* room object carries what was done to it
explore_systematic(g, st, room_count) ==
    LET root_room == st.rooms[1]
        Start(r, st1) ==
            [st |-> [st1 EXCEPT !.rooms = << [r EXCEPT !.disambiguation_id = 0,
                                                       !.path_to_root = <<>>,
                                                       !.path_from_root = <<>>] >>],
             queue |-> <<r.id>>, fatal |-> FALSE]
        Finish(a) ==
            IF a.fatal
            THEN [st |-> [a.st EXCEPT !.rooms = [st.rooms EXCEPT ![1] = a.st.rooms[1]]],
                  raised |-> TRUE]
            ELSE [st |-> a.st, raised |-> FALSE]
    IN IF st.rooms = <<>> THEN [st |-> st, raised |-> FALSE]
       ELSE Finish(SystematicQueue(g,
                IF is_complete(root_room) THEN Start(root_room, st)
                ELSE Start([root_room EXCEPT !.door_labels = peek_adjacent_rooms(g, root_room)],
                           LogCalls(st, PeekPlans(root_room))),
                room_count, 0))

\* ------------------------------------------------------------------------
\* Library graphs the oracle answers from (python lists, rooms numbered from
\* 0 there and from 1 here)
\* ------------------------------------------------------------------------
MkGraph(labels, connections) ==
    [n |-> Len(labels),
     label |-> labels,
     conn |-> [u \in 1..Len(labels) |-> [d \in Doors |-> connections[u][d + 1] + 1]],
     start |-> 1]

\* one room, label 0
LoopGraph == MkGraph(<<0>>, << <<0, 0, 0, 0, 0, 0>> >>)
\* one room whose label is not 0
LoopGraph2 == MkGraph(<<2>>, << <<0, 0, 0, 0, 0, 0>> >>)
\* two rooms with different labels joined by door 0
PairGraph == MkGraph(<<0, 1>>, << <<1, 0, 0, 0, 0, 0>>, <<0, 1, 1, 1, 1, 1>> >>)
\* two rooms with the same label, every door leading to the other room
TwinGraph == MkGraph(<<0, 0>>, << <<1, 1, 1, 1, 1, 1>>, <<0, 0, 0, 0, 0, 0>> >>)
\* three rooms in a chain
ChainGraph == MkGraph(<<0, 1, 2>>, << <<1, 0, 0, 0, 0, 0>>, <<0, 2, 1, 1, 1, 1>>,
                                     <<1, 2, 2, 2, 2, 2>> >>)
\* three rooms, two of them with the label of the start room
MixedGraph == MkGraph(<<2, 2, 0>>, << <<1, 1, 2, 1, 0, 0>>, <<1, 0, 2, 0, 0, 1>>,
                                     <<2, 0, 2, 2, 1, 2>> >>)
\* the fallback problem "probatio" of the mock server
Probatio == MkGraph(<<0, 1, 2>>, << <<1, 2, 2, 1, 2, 2>>, <<0, 0, 1, 1, 1, 0>>,
                                   <<0, 0, 0, 0, 0, 0>> >>)

\* a centre with six peripheral rooms sharing one label; door d of the centre
\* is paired with door 0 of peripheral room d, the other doors of a
\* peripheral room lead back into it
StarOf(centre, peripheral) ==
    MkGraph(<<centre>> \o [i \in 1..NumDoors |-> peripheral],
            << <<1, 2, 3, 4, 5, 6>> >>
               \o [i \in 1..NumDoors |-> <<0, i, i, i, i, i>>])
\* the star of test_star6 (every label 0) and a star with a centre of its own
StarGraph == StarOf(0, 0)
StarGraph1 == StarOf(0, 1)
StarGraphs == {StarGraph, StarGraph1}

\* start room leads to a room whose first door opens on a third room that
\* carries the label the backlink calculation writes on the start room
DecoyGraph == MkGraph(<<0, 3, 1>>, << <<1, 2, 1, 0, 1, 0>>, <<2, 0, 0, 0, 2, 2>>,
                                      <<0, 1, 1, 1, 2, 2>> >>)

DecoyGraph2 == MkGraph(<<0, 2, 1>>, << <<2, 1, 2, 2, 0, 0>>, <<2, 1, 1, 2, 2, 0>>,
                                       <<1, 0, 0, 0, 1, 1>> >>)

\* doors that are not paired, as in the built-in library of the mock server:
\* no door of the second room leads back to the first
OneWayGraph == MkGraph(<<0, 1>>, << <<1, 1, 1, 1, 1, 1>>, <<1, 1, 1, 1, 1, 1>> >>)

\* a start room with three rooms of one label behind its doors 0, 1 and 2,
\* each of them leading back through its door 0
ThreeStarGraph == MkGraph(<<0, 1, 1, 1>>, << <<1, 2, 3, 0, 0, 0>>, <<0, 1, 1, 1, 1, 1>>,
                                           <<0, 2, 2, 2, 2, 2>>, <<0, 3, 3, 3, 3, 3>> >>)

\* the room behind door 0 of the start room has a twin behind its door 1;
\* door 0 of both opens on a room that carries the label the backlink
\* calculation writes on the start room, and door 0 of that room leads to
\* the twin
TwinBehindGraph == MkGraph(<<0, 1, 2, 1, 1>>,
                           << <<1, 0, 0, 0, 0, 0>>, <<2, 3, 3, 4, 4, 4>>,
                              <<3, 2, 2, 2, 2, 2>>, <<2, 1, 3, 4, 4, 4>>,
                              <<0, 4, 4, 4, 4, 4>> >>)

Graphs == {LoopGraph, LoopGraph2, PairGraph, TwinGraph, ChainGraph, MixedGraph, Probatio}

\* ------------------------------------------------------------------------
\* State
\* ------------------------------------------------------------------------
VARIABLES
    graph,           \* the library graph behind the oracle
    room_count,      \* Problem.room_count
    store,           \* Problem.room_manager (possible_rooms and histories)
    observations,    \* Problem.observations, a list of [plan, rooms]
    explored_paths,  \* Problem.explored_paths
    pc,              \* position in run.py / explore_until_complete
    iteration,       \* loop counter of explore_until_complete
    op,              \* the operation executed last
    ops,             \* number of operations executed in the interactive session
    solution         \* what generate_solution returned or raised

vars == <<graph, room_count, store, observations, explored_paths, pc, iteration,
          op, ops, solution>>

Engine == [st |-> ResetHistory(store), observations |-> observations,
           explored |-> explored_paths]

\* bound on the loop of explore_until_complete (its max_iterations argument);
\* the runs on the library graphs end by themselves within it
MaxIterations == 14

Init ==
    /\ graph \in Graphs
    /\ room_count = graph.n
    /\ store = EmptyStore
    /\ observations = <<>>
    /\ explored_paths = {}
    /\ pc = "bootstrap"
    /\ iteration = 0
    /\ op = "init"
    /\ ops = 0
    /\ solution = NoSolution

\* Problem.bootstrap
bootstrap(st, rc) == FindOrCreate(ResetHistory(st), <<>>, 0, rc).st

Bootstrap ==
    /\ pc = "bootstrap"
    /\ store' = bootstrap(store, room_count)
    /\ pc' = "loop"
    /\ op' = "bootstrap"
    /\ UNCHANGED <<graph, room_count, observations, explored_paths, iteration, ops, solution>>

\* total_work of explore_until_complete
TotalWork(rooms, obs, explored) ==
    Len(get_incomplete_rooms(rooms))
      + Cardinality(UnknownConnectionDoors(rooms, obs))
      + Cardinality(MissingConnectionDoors(rooms, explored))
      + Cardinality(PartialExplorationDoors(rooms, explored))

\* a loop head whose cap lets one more iteration through
LoopHeadOneMore ==
    /\ pc = "loop"
    /\ IF iteration > MaxIterations
       THEN pc' = "generate" /\ iteration' = iteration /\ op' = "maximum_iterations"
       ELSE /\ iteration' = iteration + 1
            /\ IF Len(get_complete_rooms(store.rooms)) >= room_count
               THEN pc' = "generate" /\ op' = "target_reached"
               ELSE IF TotalWork(store.rooms, observations, explored_paths) = 0
               THEN pc' = "generate" /\ op' = "no_more_work"
               ELSE pc' = "explore" /\ op' = "loop_head"
    /\ UNCHANGED <<graph, room_count, store, observations, explored_paths, ops, solution>>

\* head of the while loop: the iteration cap, the target check and the
\* check for remaining work
LoopHead ==
    /\ pc = "loop"
    /\ IF iteration >= MaxIterations
       THEN pc' = "generate" /\ iteration' = iteration /\ op' = "maximum_iterations"
       ELSE /\ iteration' = iteration + 1
            /\ IF Len(get_complete_rooms(store.rooms)) >= room_count
               THEN pc' = "generate" /\ op' = "target_reached"
               ELSE IF TotalWork(store.rooms, observations, explored_paths) = 0
               THEN pc' = "generate" /\ op' = "no_more_work"
               ELSE pc' = "explore" /\ op' = "loop_head"
    /\ UNCHANGED <<graph, room_count, store, observations, explored_paths, ops, solution>>

ExploreIncompleteRooms ==
    /\ pc = "explore"
    /\ LET Commit(e) ==
               /\ store' = e.st
               /\ observations' = e.observations
               /\ explored_paths' = e.explored
       IN Commit(explore_incomplete_rooms(graph, Engine, room_count))
    /\ pc' = "systematic"
    /\ op' = "explore_incomplete_rooms"
    /\ UNCHANGED <<graph, room_count, iteration, ops, solution>>

SystematicRoomDisambiguation ==
    /\ pc = "systematic"
    /\ store' = systematic_room_disambiguation(graph, ResetHistory(store))
    /\ pc' = "dedupe"
    /\ op' = "systematic_room_disambiguation"
    /\ UNCHANGED <<graph, room_count, observations, explored_paths, iteration, ops, solution>>

RemoveDuplicateRooms ==
    /\ pc = "dedupe"
    /\ store' = remove_duplicate_rooms(graph, ResetHistory(store))
    /\ pc' = "loop"
    /\ op' = "remove_duplicate_rooms"
    /\ UNCHANGED <<graph, room_count, observations, explored_paths, iteration, ops, solution>>

\* Problem.generate_solution hands no problem to the generator
GenerateSolution ==
    /\ pc = "generate"
    /\ solution' = generate_solution(store.rooms, NoProblem)
    /\ pc' = "done"
    /\ op' = "generate_solution"
    /\ UNCHANGED <<graph, room_count, store, observations, explored_paths, iteration, ops>>

Next ==
    \/ Bootstrap
    \/ LoopHead
    \/ ExploreIncompleteRooms
    \/ SystematicRoomDisambiguation
    \/ RemoveDuplicateRooms
    \/ GenerateSolution

Spec == Init /\ [][Next]_vars

\* ------------------------------------------------------------------------
\* The interactive session of start_repl.py: the operations of the Problem
\* object `p` called in any order.  A call that leaves the rooms and the
\* explored paths as they are is a stuttering step.
\* ------------------------------------------------------------------------
\* the batches of plans handed to p.explore by the session
ReplBatches ==
    {SixDoorPlans(<<>>), SixDoorPlans(<<0>>), << <<0, 0>> >>, << <<5, 0>> >>}

\* bound on the number of operations of one session
MaxOps == 5
\* bound on the number of operations of a session on the graph with three
\* rooms of one label
MaxLongOps == 6
\* bound on the door numbers whose stored connections may be missing
MaxDropDoor == 0

ReplGraphs == {LoopGraph, PairGraph}

OpsLimit == IF graph = ThreeStarGraph THEN MaxLongOps ELSE MaxOps

\* the stored connections of the problem object handed to generate_solution:
\* for every complete room and door the fingerprint of the complete room
\* behind the door and the door leading back, read off the library graph
DoorsTo(g, u, v) == {d \in Doors : g.conn[u][d] = v}
Rank(S, d) == Cardinality({e \in S : e < d})

ReturnDoor(g, u, d) ==
    LET v == g.conn[u][d]
        k == Rank(DoorsTo(g, u, v), d)
        back == IF u # v THEN {e \in DoorsTo(g, v, u) : Rank(DoorsTo(g, v, u), e) = k}
                ELSE IF k % 2 = 0
                THEN {e \in DoorsTo(g, u, u) : Rank(DoorsTo(g, u, u), e) = k + 1}
                ELSE {e \in DoorsTo(g, u, u) : Rank(DoorsTo(g, u, u), e) = k - 1}
    IN IF back = {} THEN d ELSE CHOOSE e \in back : TRUE

StoredConnections(g, rooms) ==
    LET complete == get_complete_rooms(rooms)
        NodeOf(r) == NodeAt(g, g.start, r.paths[1])
        Behind(r, d) == FirstIdx(complete, LAMBDA t : NodeOf(t) = g.conn[NodeOf(r)][d])
        keys == {ad \in (0..(Cardinality(CompleteFingerprints(rooms)) - 1)) \X Doors :
                    Behind(AbsoluteIdToRoom(rooms, ad[1]), ad[2]) # 0}
    IN {[from_fp |-> get_fingerprint(AbsoluteIdToRoom(rooms, ad[1]), TRUE),
         from_door |-> ad[2],
         to_fp |-> get_fingerprint(
                       complete[Behind(AbsoluteIdToRoom(rooms, ad[1]), ad[2])], TRUE),
         to_door |-> ReturnDoor(g, NodeOf(AbsoluteIdToRoom(rooms, ad[1])), ad[2])] :
        ad \in keys}

InitRepl ==
    /\ graph \in ReplGraphs
    /\ room_count = graph.n
    /\ store = EmptyStore
    /\ observations = <<>>
    /\ explored_paths = {}
    /\ pc = "repl"
    /\ iteration = 0
    /\ op = "init"
    /\ ops = 0
    /\ solution = NoSolution

ReplBootstrap ==
    /\ pc = "repl"
    /\ ops < OpsLimit
    /\ ops' = ops + 1
    /\ store' = bootstrap(store, room_count)
    /\ store'.rooms # store.rooms
    /\ op' = "bootstrap"
    /\ UNCHANGED <<graph, room_count, observations, explored_paths, pc, iteration, solution>>

\* p.explore(plans)
ReplExplore ==
    /\ pc = "repl"
    /\ ops < OpsLimit
    /\ ops' = ops + 1
    /\ \E plans \in ReplBatches :
          LET Commit(e) ==
                  /\ store' = e.st
                  /\ observations' = e.observations
                  /\ explored_paths' = e.explored
          IN Commit(explore(graph, Engine, plans, room_count))
    /\ explored_paths' # explored_paths
    /\ op' = "explore"
    /\ UNCHANGED <<graph, room_count, pc, iteration, solution>>

\* p.explore_incomplete_rooms()
ReplExploreIncompleteRooms ==
    /\ pc = "repl"
    /\ ops < OpsLimit
    /\ ops' = ops + 1
    /\ LET Commit(e) ==
               /\ store' = e.st
               /\ observations' = e.observations
               /\ explored_paths' = e.explored
       IN Commit(explore_incomplete_rooms(graph, Engine, room_count))
    /\ store'.rooms # store.rooms \/ explored_paths' # explored_paths
    /\ op' = "explore_incomplete_rooms"
    /\ UNCHANGED <<graph, room_count, pc, iteration, solution>>

\* p.process_observation(plan, rooms) for the first or the last observation
\* of the log, as the replay loop of load_observations does for each
ReplProcessObservation ==
    /\ pc = "repl"
    /\ ops < OpsLimit
    /\ ops' = ops + 1
    /\ \E i \in {1, Len(observations)} \cap (1..Len(observations)) :
          store' = process_observation(graph, ResetHistory(store), observations[i].plan,
                                       observations[i].rooms, room_count)
    /\ store'.rooms # store.rooms
    /\ op' = "process_observation"
    /\ UNCHANGED <<graph, room_count, observations, explored_paths, pc, iteration, solution>>

ReplSystematicRoomDisambiguation ==
    /\ pc = "repl"
    /\ ops < OpsLimit
    /\ ops' = ops + 1
    /\ store' = systematic_room_disambiguation(graph, ResetHistory(store))
    /\ store'.rooms # store.rooms
    /\ op' = "systematic_room_disambiguation"
    /\ UNCHANGED <<graph, room_count, observations, explored_paths, pc, iteration, solution>>

ReplRemoveDuplicateRooms ==
    /\ pc = "repl"
    /\ ops < OpsLimit
    /\ ops' = ops + 1
    /\ store' = remove_duplicate_rooms(graph, ResetHistory(store))
    /\ store'.rooms # store.rooms
    /\ op' = "remove_duplicate_rooms"
    /\ UNCHANGED <<graph, room_count, observations, explored_paths, pc, iteration, solution>>

ReplCleanup ==
    /\ pc = "repl"
    /\ ops < OpsLimit
    /\ ops' = ops + 1
    /\ store' = cleanup_all_partial_rooms_when_complete(ResetHistory(store), observations,
                                                        room_count)
    /\ store'.rooms # store.rooms
    /\ op' = "cleanup_all_partial_rooms_when_complete"
    /\ UNCHANGED <<graph, room_count, observations, explored_paths, pc, iteration, solution>>

\* p.detect_and_resolve_ambiguous_rooms()
ReplDetectAndResolve ==
    /\ pc = "repl"
    /\ ops < OpsLimit
    /\ ops' = ops + 1
    /\ store' = detect_and_resolve_ambiguous_rooms(ResetHistory(store))
    /\ store'.rooms # store.rooms
    /\ op' = "detect_and_resolve_ambiguous_rooms"
    /\ UNCHANGED <<graph, room_count, observations, explored_paths, pc, iteration, solution>>

\* p.solution_generator.generate_solution(filename, problem) with a problem
\* object that carries stored connections; the session ends with it
ReplGenerateSolution ==
    /\ pc = "repl"
    /\ ops < OpsLimit
    /\ ops' = ops + 1
    /\ \E drop \in SUBSET (0..MaxDropDoor) :
          solution' = generate_solution(store.rooms,
                          ProblemWith({e \in StoredConnections(graph, store.rooms) :
                                          e.from_door \notin drop}))
    /\ pc' = "done"
    /\ op' = "generate_solution"
    /\ UNCHANGED <<graph, room_count, store, observations, explored_paths, iteration>>

NextRepl ==
    \/ ReplBootstrap
    \/ ReplExplore
    \/ ReplExploreIncompleteRooms
    \/ ReplProcessObservation
    \/ ReplSystematicRoomDisambiguation
    \/ ReplRemoveDuplicateRooms
    \/ ReplCleanup
    \/ ReplDetectAndResolve
    \/ ReplGenerateSolution

SpecRepl == InitRepl /\ [][NextRepl]_vars

\* ------------------------------------------------------------------------
\* The session of test_star6.py: bootstrap, the six doors of the centre,
\* systematic disambiguation, on a star, for every configured room count
\* ------------------------------------------------------------------------
StarRoomCounts == 1..StarGraph.n

InitStar ==
    /\ graph \in StarGraphs
    /\ room_count \in StarRoomCounts
    /\ store = EmptyStore
    /\ observations = <<>>
    /\ explored_paths = {}
    /\ pc = "repl"
    /\ iteration = 0
    /\ op = "init"
    /\ ops = 0
    /\ solution = NoSolution

NextStar ==
    \/ ReplBootstrap
    \/ ReplExplore
    \/ ReplSystematicRoomDisambiguation

SpecStar == InitStar /\ [][NextStar]_vars

\* ------------------------------------------------------------------------
\* The interactive session with p.explore_systematic() among its operations
\* ------------------------------------------------------------------------
SysGraphs == {PairGraph, TwinGraph, DecoyGraph, DecoyGraph2, OneWayGraph}

InitSys ==
    /\ graph \in SysGraphs
    /\ room_count = graph.n
    /\ store = EmptyStore
    /\ observations = <<>>
    /\ explored_paths = {}
    /\ pc = "repl"
    /\ iteration = 0
    /\ op = "init"
    /\ ops = 0
    /\ solution = NoSolution

\* p.explore_systematic()
ReplExploreSystematic ==
    /\ pc = "repl"
    /\ ops < OpsLimit
    /\ ops' = ops + 1
    /\ LET Commit(e) ==
               /\ store' = e.st
               /\ op' = IF e.raised THEN "explore_systematic:RuntimeError"
                        ELSE "explore_systematic"
       IN Commit(explore_systematic(graph, ResetHistory(store), room_count))
    /\ store'.rooms # store.rooms
    /\ UNCHANGED <<graph, room_count, observations, explored_paths, pc, iteration, solution>>

NextSys ==
    \/ ReplBootstrap
    \/ ReplExploreSystematic
    \/ ReplExplore
    \/ ReplSystematicRoomDisambiguation
    \/ ReplRemoveDuplicateRooms

SpecSys == InitSys /\ [][NextSys]_vars

\* ------------------------------------------------------------------------
\* The interactive session that explores by hand and then hands over to
\* p.explore_until_complete() and p.generate_solution()
\* ------------------------------------------------------------------------
UntilGraphs == {LoopGraph, PairGraph, TwinGraph}

InitUntil ==
    /\ graph \in UntilGraphs
    /\ room_count = graph.n
    /\ store = EmptyStore
    /\ observations = <<>>
    /\ explored_paths = {}
    /\ pc = "repl"
    /\ iteration = 0
    /\ op = "init"
    /\ ops = 0
    /\ solution = NoSolution

\* p.explore_until_complete(): the call enters the while loop with its
\* counter at zero; the loop itself is LoopHead and the steps after it
ReplExploreUntilComplete ==
    /\ pc = "repl"
    /\ ops < OpsLimit
    /\ ops' = ops + 1
    /\ iteration' = 0
    /\ pc' = "loop"
    /\ op' = "explore_until_complete"
    /\ UNCHANGED <<graph, room_count, store, observations, explored_paths, solution>>

NextUntil ==
    \/ ReplBootstrap
    \/ ReplExplore
    \/ ReplExploreUntilComplete
    \/ LoopHead
    \/ ExploreIncompleteRooms
    \/ SystematicRoomDisambiguation
    \/ RemoveDuplicateRooms
    \/ GenerateSolution

SpecUntil == InitUntil /\ [][NextUntil]_vars

\* ------------------------------------------------------------------------
\* The interactive session against an oracle that may answer a batch with a
\* malformed response
\* ------------------------------------------------------------------------
OracleFaults == {"fewer_sequences", "short_sequence"}

\* p.explore(plans) answered with a malformed response
ReplExploreMalformed ==
    /\ pc = "repl"
    /\ ops < OpsLimit
    /\ ops' = ops + 1
    /\ \E plans \in ReplBatches, fault \in OracleFaults :
          LET Commit(e) ==
                  /\ store' = e.st
                  /\ observations' = e.observations
                  /\ explored_paths' = e.explored
          IN Commit(explore_malformed(graph, Engine, plans, fault, room_count))
    /\ explored_paths' # explored_paths
    /\ op' = "explore_malformed"
    /\ UNCHANGED <<graph, room_count, pc, iteration, solution>>

NextFault ==
    \/ ReplBootstrap
    \/ ReplExplore
    \/ ReplExploreMalformed

SpecFault == InitRepl /\ [][NextFault]_vars

\* ------------------------------------------------------------------------
\* A session that explores behind door 5 of the start room, numbers the
\* candidates and calls room_manager.assign_initial_disambiguation_ids()
\* ------------------------------------------------------------------------
IdsBatches ==
    {SixDoorPlans(<<>>),
     SixDoorPlans(<<>>) \o Tail(SixDoorPlans(<<5>>)) \o Tail(SixDoorPlans(<<5, 5>>)),
     << <<5, 0>> >>}

\* p.explore(plans)
ReplExploreBehindFive ==
    /\ pc = "repl"
    /\ ops < OpsLimit
    /\ ops' = ops + 1
    /\ \E plans \in IdsBatches :
          LET Commit(e) ==
                  /\ store' = e.st
                  /\ observations' = e.observations
                  /\ explored_paths' = e.explored
          IN Commit(explore(graph, Engine, plans, room_count))
    /\ explored_paths' # explored_paths
    /\ op' = "explore"
    /\ UNCHANGED <<graph, room_count, pc, iteration, solution>>

\* p.room_manager.assign_initial_disambiguation_ids()
ReplAssignInitialIds ==
    /\ pc = "repl"
    /\ ops < OpsLimit
    /\ ops' = ops + 1
    /\ store' = assign_initial_disambiguation_ids(ResetHistory(store))
    /\ op' = "assign_initial_disambiguation_ids"
    /\ UNCHANGED <<graph, room_count, observations, explored_paths, pc, iteration, solution>>

NextIds ==
    \/ ReplExploreBehindFive
    \/ ReplDetectAndResolve
    \/ ReplAssignInitialIds

SpecIds == InitRepl /\ [][NextIds]_vars

\* ------------------------------------------------------------------------
\* A session on the graph with three rooms of one label: the rooms behind
\* doors 1 and 2 are reached again over longer paths after
\* explore_systematic, and the duplicates are removed and numbered
\* ------------------------------------------------------------------------
RevisitBatches ==
    {<< <<1, 0, 1>> >> \o SixDoorPlans(<<0, 0, 2>>), SixDoorPlans(<<1, 0, 1>>)}

InitRevisit ==
    /\ graph = ThreeStarGraph
    /\ room_count = graph.n
    /\ store = EmptyStore
    /\ observations = <<>>
    /\ explored_paths = {}
    /\ pc = "repl"
    /\ iteration = 0
    /\ op = "init"
    /\ ops = 0
    /\ solution = NoSolution

\* p.explore(plans)
ReplExploreRevisit ==
    /\ pc = "repl"
    /\ ops < OpsLimit
    /\ ops' = ops + 1
    /\ \E plans \in RevisitBatches :
          LET Commit(e) ==
                  /\ store' = e.st
                  /\ observations' = e.observations
                  /\ explored_paths' = e.explored
          IN Commit(explore(graph, Engine, plans, room_count))
    /\ explored_paths' # explored_paths
    /\ op' = "explore"
    /\ UNCHANGED <<graph, room_count, pc, iteration, solution>>

NextRevisit ==
    \/ ReplBootstrap
    \/ ReplExploreSystematic
    \/ ReplExploreRevisit
    \/ ReplRemoveDuplicateRooms
    \/ ReplDetectAndResolve

SpecRevisit == InitRevisit /\ [][NextRevisit]_vars

\* ------------------------------------------------------------------------
\* A session on the graph with the twin: explore_systematic is told of two
\* rooms, the twin is explored over the path [0, 1] and the rooms behind it
\* are folded into its candidate before the duplicates are removed
\* ------------------------------------------------------------------------
TwinBatches == {SixDoorPlans(<<0, 1>>), SixDoorPlans(<<0>>), <<<<0, 1, 1>>>>}

InitTwin ==
    /\ graph = TwinBehindGraph
    /\ room_count = 2
    /\ store = EmptyStore
    /\ observations = <<>>
    /\ explored_paths = {}
    /\ pc = "repl"
    /\ iteration = 0
    /\ op = "init"
    /\ ops = 0
    /\ solution = NoSolution

\* p.explore(plans)
ReplExploreTwin ==
    /\ pc = "repl"
    /\ ops < OpsLimit
    /\ ops' = ops + 1
    /\ \E plans \in TwinBatches :
          LET Commit(e) ==
                  /\ store' = e.st
                  /\ observations' = e.observations
                  /\ explored_paths' = e.explored
          IN Commit(explore(graph, Engine, plans, room_count))
    /\ explored_paths' # explored_paths
    /\ op' = "explore"
    /\ UNCHANGED <<graph, room_count, pc, iteration, solution>>

NextTwin ==
    \/ ReplBootstrap
    \/ ReplExploreSystematic
    \/ ReplExploreTwin
    \/ ReplSystematicRoomDisambiguation
    \/ ReplRemoveDuplicateRooms

SpecTwin == InitTwin /\ [][NextTwin]_vars

\* ------------------------------------------------------------------------
\* The interactive session on a library whose start room does not carry the
\* label 0 that bootstrap assumes
\* ------------------------------------------------------------------------
InitOtherLabel ==
    /\ graph = LoopGraph2
    /\ room_count = graph.n
    /\ store = EmptyStore
    /\ observations = <<>>
    /\ explored_paths = {}
    /\ pc = "repl"
    /\ iteration = 0
    /\ op = "init"
    /\ ops = 0
    /\ solution = NoSolution

SpecOtherLabel == InitOtherLabel /\ [][NextRepl]_vars

\* ------------------------------------------------------------------------
\* Properties
\* ------------------------------------------------------------------------
CompleteIdx == {i \in 1..Len(store.rooms) : is_complete(store.rooms[i])}

\* bijections between the room indices of a solution and the nodes of g
Renamings(n) ==
    {f \in [0..(n - 1) -> 1..n] : \A a, b \in 0..(n - 1) : f[a] = f[b] => a = b}

RecordsFrom(sol, r, d) ==
    {i \in 1..Len(sol.connections) :
        sol.connections[i].from = [room |-> r, door |-> d]}

Isomorphic(sol, g) ==
    /\ Len(sol.rooms) = g.n
    /\ \E f \in Renamings(g.n) :
          /\ \A r \in 0..(g.n - 1) : g.label[f[r]] = sol.rooms[r + 1]
          /\ f[sol.startingRoom] = g.start
          /\ \A r \in 0..(g.n - 1) : \A d \in Doors : RecordsFrom(sol, r, d) # {}
          /\ \A i \in 1..Len(sol.connections) :
                LET c == sol.connections[i]
                IN /\ g.conn[f[c.from.room]][c.from.door] = f[c.to.room]
                   /\ g.conn[f[c.to.room]][c.to.door] = f[c.from.room]

\* C1: after bootstrap, explore_until_complete and generate_solution the run
\* has emitted a map isomorphic to the library graph (same labels, same
\* connections up to renaming of rooms, matching start room).
C1_RoundTrip ==
    pc = "done" => solution.status = "emitted" /\ Isomorphic(solution, graph)

ReverseOf(c) == [from |-> c.to, to |-> c.from]

\* C2: every connection record (a,da)->(b,db) of an emitted solution has its
\* reverse record (b,db)->(a,da) in the same solution.
C2_Bidirectional ==
    solution.status = "emitted" =>
        \A i \in 1..Len(solution.connections) :
            \E j \in 1..Len(solution.connections) :
                solution.connections[j] = ReverseOf(solution.connections[i])

\* a solution was emitted that holds a connection between two different
\* doors, together with other records
C2_Witness ==
    /\ solution.status = "emitted"
    /\ Len(solution.connections) >= 4
    /\ \E i \in 1..Len(solution.connections) :
          solution.connections[i].from # solution.connections[i].to

\* C3: an emitted solution has exactly room_count rooms and exactly one
\* record whose `from` is (r, d) for every room r and door d, 6 x room_count
\* records in total.
C3_TotalCoverage ==
    solution.status = "emitted" =>
        /\ Len(solution.rooms) = room_count
        /\ \A r \in 0..(room_count - 1) : \A d \in Doors :
              Cardinality(RecordsFrom(solution, r, d)) = 1
        /\ Len(solution.connections) = NumDoors * room_count

\* C4: once the ambiguous rooms have been resolved, two complete candidates
\* with the same label and door labels carry different disambiguation ids
\* and a disambiguation probe between them has ended with verdict Different.
C4_FingerprintSoundness ==
    op = "detect_and_resolve_ambiguous_rooms" =>
        \A i, j \in CompleteIdx :
            (i < j /\ BaseFp(store.rooms[i]) = BaseFp(store.rooms[j])) =>
                /\ store.rooms[i].disambiguation_id # store.rooms[j].disambiguation_id
                /\ \/ <<store.rooms[i].id, store.rooms[j].id>> \in store.different
                   \/ <<store.rooms[j].id, store.rooms[i].id>> \in store.different

\* C5: two complete candidates (with the same base fingerprint) are merged
\* only after a disambiguation probe on the pair ended with the edit label
\* (verdict "same"); a skipped, failed or inconclusive probe merges nothing.
C5_MergeOnlyWhenSame ==
    \A i \in 1..Len(store.merges) :
        store.merges[i].complete => store.merges[i].verdict = "same"

\* replaying every path of the candidate on the library graph ends at a node
\* with the candidate's label and with the recorded labels behind its doors
CandidateSound(g, room) ==
    \A i \in 1..Len(room.paths) :
        LET u == NodeAt(g, g.start, room.paths[i])
        IN /\ g.label[u] = room.label
           /\ \A d \in Doors :
                 room.door_labels[d] # None => g.label[g.conn[u][d]] = room.door_labels[d]

\* C6: at every point of a run every path of every candidate replays, on the
\* library graph, to a node with the candidate's label and door labels.
C6_PathsConsistent ==
    \A i \in 1..Len(store.rooms) : CandidateSound(graph, store.rooms[i])

\* C7: a door label that has been recorded is never changed to a different
\* label by recording an observation or a return door.
C7_NoOverwrite ==
    store.overwrites = <<>>

\* C8: when an observation reports a label different from the one recorded
\* for a door, the engine has stopped with a Contradiction error.  No
\* operation of the engine raises such an error, so no action moves pc to
\* "contradiction".
C8_ContradictionRaised ==
    (\E i \in 1..Len(store.overwrites) : store.overwrites[i].by = "observation")
        => pc = "contradiction"

\* C9: processing again an observation of the log creates no candidate: the
\* store holds as many candidates after it as before.
C9_ReplayCreatesNothing ==
    op = "process_observation" => store.foc[1].count_before = Len(store.rooms)

\* C10: find_or_create returns the existing candidate when the path is
\* recorded with that label; otherwise, when the path can be replayed through
\* complete candidates, it adds the path to the candidate the replay ends in
\* and allocates nothing; otherwise it allocates a new candidate.
C10_FindOrCreate ==
    \A i \in 1..Len(store.foc) :
        LET e == store.foc[i]
        IN /\ e.exact # 0 => (e.ret = e.exact /\ ~e.created)
           /\ (e.exact = 0 /\ e.traced # 0) =>
                 (~e.created /\ e.ret = e.traced /\ e.path_added)
           /\ (e.exact = 0 /\ e.traced = 0) => e.created

\* C11: on a star whose six peripheral rooms share one label,
\* find_or_create never returns, for a path [i], a candidate that holds a
\* path [j] leading to another peripheral room, whatever room count is
\* configured.
C11_StarNotCollapsed ==
    graph \in StarGraphs =>
        \A i \in 1..Len(store.foc) :
            LET e == store.foc[i]
            IN Len(e.path) = 1 =>
                  \A k \in 1..Len(e.ret_paths) :
                      Len(e.ret_paths[k]) = 1 =>
                          NodeAt(graph, graph.start, e.ret_paths[k])
                            = NodeAt(graph, graph.start, e.path)

\* C12: on the graph of two rooms with one label and identical fingerprints
\* the run has probed the two candidates (the probe ending with the verdict
\* "different") and ends with two candidates, one for each room.
C12_TwinsKeptApart ==
    (graph = TwinGraph /\ pc = "done") =>
        /\ store.different # {}
        /\ Len(store.rooms) = 2
        /\ \A u \in 1..graph.n : \E i \in 1..Len(store.rooms) :
              /\ is_complete(store.rooms[i])
              /\ \A k \in 1..Len(store.rooms[i].paths) :
                    NodeAt(graph, graph.start, store.rooms[i].paths[k]) = u

\* C13: when a disambiguation probe for candidates a and b ended with the
\* original label of b (verdict "different"), then after the operation both
\* candidates are in the store, each has a disambiguation id, and the two
\* ids differ.
C13_DifferentKeepsBoth ==
    \A i \in 1..Len(store.probes) :
        LET pr == store.probes[i]
        IN pr.verdict = "different" =>
              /\ HasId(store.rooms, pr.a)
              /\ HasId(store.rooms, pr.b)
              /\ RoomOfId(store.rooms, pr.a).disambiguation_id # None
              /\ RoomOfId(store.rooms, pr.b).disambiguation_id # None
              /\ RoomOfId(store.rooms, pr.a).disambiguation_id
                    # RoomOfId(store.rooms, pr.b).disambiguation_id

SeqSet(q) == {q[i] : i \in 1..Len(q)}

C15_UnclearIsFatal ==
    \A i \in 1..Len(store.probes) :
        LET pr == store.probes[i]
        IN pr.verdict = "unclear" =>
              /\ op = "explore_systematic:RuntimeError"
              /\ \A j \in 1..Len(store.merges) :
                    {store.merges[j].keeper, store.merges[j].victim} # {pr.a, pr.b}

\* C16: when discover_return_door found a door d because the probe through d
\* ended with the temporary label, d is in the library graph a door of the
\* child's node that leads to the parent's node, and the label recorded for d
\* on the child is the parent's own label, not the temporary one.
C16_ReturnDoorLeadsBack ==
    \A i \in 1..Len(store.returns) :
        LET e == store.returns[i]
            parent == NodeAt(graph, graph.start, e.from_path)
        IN e.found # None =>
              /\ graph.conn[graph.conn[parent][e.forward_door]][e.found] = parent
              /\ e.kind = "return_door" =>
                    /\ e.after[2][e.found] = e.from_label
                    /\ e.from_label # e.temp_label

\* C17: when none of the six probes for the return door (discover_return_door,
\* Room.calculate_backlink) ended with the temporary label, nothing is
\* raised, the door labels of parent and child are what they were before the
\* call, and the session goes on with further operations.
C17_NoReturnDoorNoChange ==
    \A i \in 1..Len(store.returns) :
        LET e == store.returns[i]
        IN e.found = None =>
              /\ e.after = e.before
              /\ op # "explore_systematic:RuntimeError"
              /\ pc = "repl"

\* C18: no path is sent to the oracle through explore more than once in a
\* run: the observation log, which gets one entry per plan sent by explore,
\* holds no plan twice, and every plan sent is in explored_paths.
C18_NoPathTwice ==
    /\ \A i, j \in 1..Len(observations) :
          observations[i].plan = observations[j].plan => i = j
    /\ \A i \in 1..Len(observations) : observations[i].plan \in explored_paths

\* explore was handed the six doors behind door 0 after the path <<0, 0>>
\* had been explored, and sent the five other plans only
C18_Witness ==
    /\ op = "explore"
    /\ Len(observations) = NumDoors
    /\ observations[1].plan = <<0, 0>>
    /\ Len(store.calls) >= 1
    /\ Len(store.calls[1]) = NumDoors - 1
    /\ \A k \in 1..Len(store.calls[1]) : store.calls[1][k] # <<0, 0>>

\* C19: get_next_exploration_batch returns a batch of rule k only when the
\* rules 1..k-1 have no work (and rule k has), and one call of
\* explore_incomplete_rooms gets exactly one batch, which is not empty.
C19_StrictPriority ==
    /\ Len(store.batches) <= 1
    /\ op = "explore_incomplete_rooms" => Len(store.batches) = 1
    /\ \A i \in 1..Len(store.batches) :
          LET b == store.batches[i]
          IN /\ b.priority \in b.work
             /\ \A k \in 1..(b.priority - 1) : k \notin b.work
             /\ b.plans # <<>>

\* the scheduler returned a batch of rule 3 (partial-room expansion) while
\* rule 4 had work as well and rules 1 and 2 had none, and the batch was
\* explored
C19_Witness ==
    /\ op = "explore_incomplete_rooms"
    /\ \E i \in 1..Len(store.batches) :
          /\ store.batches[i].priority = 3
          /\ store.batches[i].work = {3, 4}
          /\ store.batches[i].plans \in SeqSet(store.calls)

\* C20: explore_until_complete stops with "target reached" only when the
\* store holds exactly room_count complete candidates and no two of them
\* share a base fingerprint without carrying different disambiguation ids.
C20_TargetReached ==
    op = "target_reached" =>
        /\ Cardinality(CompleteIdx) = room_count
        /\ \A i, j \in CompleteIdx :
              (i # j /\ BaseFp(store.rooms[i]) = BaseFp(store.rooms[j])) =>
                  /\ store.rooms[i].disambiguation_id # None
                  /\ store.rooms[j].disambiguation_id # None
                  /\ store.rooms[i].disambiguation_id # store.rooms[j].disambiguation_id

\* C21: explore_until_complete(max_iterations = MaxIterations) runs at most
\* MaxIterations iterations of its loop, and when the cap is what ends the loop
\* the call returns normally: control is back at the caller, which goes on
\* with generate_solution, and nothing was raised.
C21_IterationCap ==
    /\ iteration <= MaxIterations
    /\ op = "maximum_iterations" =>
          /\ iteration = MaxIterations
          /\ pc = "generate"
          /\ solution = NoSolution

\* the cap ended a run that still had work and fewer complete rooms than the
\* target
C21_Witness ==
    /\ op = "maximum_iterations"
    /\ iteration = MaxIterations
    /\ Len(get_complete_rooms(store.rooms)) < room_count
    /\ TotalWork(store.rooms, observations, explored_paths) > 0

\* the store holds room_count complete candidates, their fingerprints differ
\* pairwise, and every door of every complete candidate has a resolved
\* absolute connection
CompleteCoverage ==
    /\ Cardinality(CompleteIdx) = room_count
    /\ \A i, j \in CompleteIdx :
          i # j => get_fingerprint(store.rooms[i], TRUE) # get_fingerprint(store.rooms[j], TRUE)
    /\ \A i \in CompleteIdx : \A d \in Doors :
          AbsoluteConnection(store.rooms, observations, store.rooms[i], d) # None

\* C22: with complete coverage get_partial_rooms_to_explore returns the empty
\* list and get_next_exploration_batch returns None: no exploration is
\* proposed any more.
C22_NothingLeftToExplore ==
    CompleteCoverage =>
        /\ PartialExplorationDoors(store.rooms, explored_paths) = {}
        /\ get_next_exploration_batch(store.rooms, observations, explored_paths).priority = 0

\* C23: the assembler never leaves an edge out of an emitted solution: when
\* the connection of some (room, door), and with it the reverse door, cannot
\* be determined it raises instead, so every door of every room of an emitted
\* solution has a connection record.
C23_UndeterminedEdgeRaises ==
    solution.status = "emitted" =>
        \A r \in 0..(Len(solution.rooms) - 1) : \A d \in Doors :
            RecordsFrom(solution, r, d) # {}

\* the split of a response by position: the label at the position of an edit
\* of the plan is its echo, every other label is an actual label
PositionalSplit(plan, response) ==
    LET IsEcho(i) == i > 1 /\ IsEdit(plan[i - 1])
        idx == [i \in 1..Len(response) |-> i]
        Pick(at) == [k \in 1..Len(at) |-> response[at[k]]]
    IN [actual |-> Pick(SelectSeq(idx, LAMBDA i : ~IsEcho(i))),
        echoes |-> Pick(SelectSeq(idx, IsEcho))]

\* the plans of a return-door probe whose responses were parsed: the doors up
\* to the one that was found, all six when none was
ParsedReturnPlans(e) ==
    LET plans == ReturnDoorPlans(e.from_path, e.temp_label, e.forward_door)
    IN {plans[d + 1] : d \in {c \in Doors : e.found = None \/ c <= e.found}}

\* C24: parse_response_with_echoes returns as echoes exactly the labels at the
\* positions of the plan's edits and as actual labels all the others in
\* their order, for every response the return-door discovery parsed.
C24_EchoesByPosition ==
    \A k \in 1..Len(store.returns) :
        store.returns[k].kind = "return_door" =>
            \A plan \in ParsedReturnPlans(store.returns[k]) :
                parse_response_with_echoes(plan, OracleExplore(graph, plan))
                    = PositionalSplit(plan, OracleExplore(graph, plan))

\* C25: a batch whose response is malformed (a sequence of the wrong length,
\* or fewer sequences than plans) is fatal for that batch: nothing of it is
\* recorded, neither a candidate nor a path nor a door label nor an
\* observation.
C25_MalformedRecordsNothing ==
    [][op' = "explore_malformed" =>
          /\ store'.rooms = store.rooms
          /\ observations' = observations]_vars

\* C26: right after bootstrap the six one-door paths are in explored_paths
\* and the candidate of the empty path carries the label the oracle reports
\* for the start node.
C26_BootstrapProbesSixDoors ==
    op = "bootstrap" =>
        /\ \A d \in Doors : <<d>> \in explored_paths
        /\ \A i \in 1..Len(store.rooms) :
               InSeq(<<>>, store.rooms[i].paths)
                   => store.rooms[i].label = graph.label[graph.start]

\* C27: the startingRoom of an emitted solution is the absolute id of a
\* candidate whose paths contain the empty path.
C27_StartingRoomHasEmptyPath ==
    solution.status = "emitted" =>
        \E i \in 1..Len(store.rooms) :
            /\ is_complete(store.rooms[i])
            /\ InSeq(<<>>, store.rooms[i].paths)
            /\ get_absolute_room_mapping(store.rooms)[get_fingerprint(store.rooms[i], TRUE)]
                   = solution.startingRoom

\* a fingerprint that sorts before another: at the first position where the
\* two differ it has the smaller character, or it is a proper prefix
SortsBefore(a, b) ==
    \/ \E k \in 1..Len(a) :
          /\ k <= Len(b)
          /\ \A j \in 1..(k - 1) : a[j] = b[j]
          /\ a[k] < b[k]
    \/ /\ Len(a) < Len(b)
       /\ \A j \in 1..Len(a) : a[j] = b[j]

\* C28: the absolute id of a complete candidate is the 0-based rank of its
\* fingerprint among the sorted fingerprints of all complete candidates: the
\* number of those fingerprints that sort before it.
C28_AbsoluteIdIsRank ==
    \A i \in 1..Len(store.rooms) :
        is_complete(store.rooms[i]) =>
            get_absolute_room_mapping(store.rooms)[get_fingerprint(store.rooms[i], TRUE)]
                = Cardinality({get_fingerprint(store.rooms[j], TRUE) :
                      j \in {k \in 1..Len(store.rooms) :
                                /\ is_complete(store.rooms[k])
                                /\ SortsBefore(get_fingerprint(store.rooms[k], TRUE),
                                               get_fingerprint(store.rooms[i], TRUE))}})

\* two complete candidates stored in the opposite order of their fingerprints
C28_Witness ==
    \E i, j \in 1..Len(store.rooms) :
        /\ i < j
        /\ is_complete(store.rooms[i])
        /\ is_complete(store.rooms[j])
        /\ SortsBefore(get_fingerprint(store.rooms[j], TRUE),
                       get_fingerprint(store.rooms[i], TRUE))

\* is the base fingerprint of the complete candidate i shared by another
\* complete candidate
SharedBase(rooms, i) ==
    \E j \in 1..Len(rooms) :
        j # i /\ is_complete(rooms[j]) /\ BaseFp(rooms[j]) = BaseFp(rooms[i])

\* the outcome of assign_initial_disambiguation_ids on a list of candidates
IdsAssigned(before, after) ==
    /\ Len(after) = Len(before)
    /\ \A i \in 1..Len(before) :
          is_complete(before[i]) =>
              IF SharedBase(before, i)
              THEN after[i].disambiguation_id = before[i].disambiguation_id
              ELSE after[i].disambiguation_id = 0

\* C29: after assign_initial_disambiguation_ids every complete candidate
\* whose base fingerprint no other complete candidate shares has
\* disambiguation id 0, and every complete candidate whose base fingerprint
\* is shared keeps the id it had before the call.
C29_UniqueGetsZero ==
    [][op' = "assign_initial_disambiguation_ids"
          => IdsAssigned(store.rooms, store'.rooms)]_vars

\* the candidate with identity id is complete and got, in the step from st
\* to st2, a disambiguation id above 0 that it did not carry before
NewlyNumbered(st, st2, id) ==
    /\ HasId(st2.rooms, id)
    /\ is_complete(RoomOfId(st2.rooms, id))
    /\ RoomOfId(st2.rooms, id).disambiguation_id > 0
    /\ \/ ~HasId(st.rooms, id)
       \/ RoomOfId(st.rooms, id).disambiguation_id
              # RoomOfId(st2.rooms, id).disambiguation_id

\* the candidates of the same base fingerprint that carry a lower id
LowerRepresentatives(rooms, id) ==
    {rooms[k].id : k \in {j \in 1..Len(rooms) :
        /\ is_complete(rooms[j])
        /\ BaseFp(rooms[j]) = BaseFp(RoomOfId(rooms, id))
        /\ rooms[j].disambiguation_id # None
        /\ rooms[j].disambiguation_id < RoomOfId(rooms, id).disambiguation_id}}

\* C30: a candidate of a group with the same base fingerprint gets a new
\* disambiguation id only when a disambiguation probe has returned Different
\* between it and every representative of the group that was confirmed
\* before it (those carrying the lower ids).
C30_NewIdOnlyAfterDifferent ==
    [][\A i \in 1..Len(store'.rooms) :
          NewlyNumbered(store, store', store'.rooms[i].id) =>
              \A r \in LowerRepresentatives(store'.rooms, store'.rooms[i].id) :
                  \/ <<r, store'.rooms[i].id>> \in store'.different
                  \/ <<store'.rooms[i].id, r>> \in store'.different]_vars

\* the candidate with identity id took part in a probe that returned Different
\* and carries a disambiguation id
ConfirmedDistinct(st, id) ==
    /\ HasId(st.rooms, id)
    /\ RoomOfId(st.rooms, id).disambiguation_id # None
    /\ \E pr \in st.different : pr[1] = id \/ pr[2] = id

\* C31: the disambiguation id a candidate carries after a Different verdict
\* is neither cleared nor changed by a later operation, as long as the
\* candidate is in the store.
C31_IdPermanent ==
    [][\A i \in 1..Len(store.rooms) :
          (/\ ConfirmedDistinct(store, store.rooms[i].id)
           /\ HasId(store'.rooms, store.rooms[i].id))
              => RoomOfId(store'.rooms, store.rooms[i].id).disambiguation_id
                    = store.rooms[i].disambiguation_id]_vars

\* C32: every iteration of explore_until_complete issues exactly one oracle
\* call: the exploration step of the iteration hands one batch to the oracle,
\* and the disambiguation and duplicate-removal steps that follow it hand
\* none.
C32_OneCallPerIteration ==
    /\ op = "explore_incomplete_rooms" => Len(store.calls) = 1
    /\ (pc \in {"dedupe", "loop"}
          /\ op \in {"systematic_room_disambiguation", "remove_duplicate_rooms"})
           => Len(store.calls) = 0

\* C33: every batch that get_next_exploration_batch returns holds at least
\* one path that is not in explored_paths when the batch is taken.
C33_BatchHasNewPath ==
    [][op' = "explore_incomplete_rooms" =>
          \A k \in 1..Len(store'.batches) :
              \E i \in 1..Len(store'.batches[k].plans) :
                  store'.batches[k].plans[i] \notin explored_paths]_vars

\* C34: for every candidate with a non-empty path_to_root, following the
\* doors of path_to_root from the candidate's node in the true graph ends at
\* the start node.
C34_PathToRootLeadsHome ==
    \A i \in 1..Len(store.rooms) :
        (store.rooms[i].path_to_root # <<>> /\ store.rooms[i].paths # <<>>)
            => NodeAt(graph,
                      NodeAt(graph, graph.start, store.rooms[i].paths[1]),
                      store.rooms[i].path_to_root) = graph.start

Dangling(rooms) ==
    {<<j, d>> \in (1..Len(rooms)) \X Doors :
        /\ rooms[j].door_rooms[d] # None
        /\ ~HasId(rooms, rooms[j].door_rooms[d])}

\* C35: after any step that takes a candidate out of the store (a merge or
\* a removal), no remaining candidate has a door_rooms entry that refers to
\* a candidate no longer in the store.
C35_NoDanglingDoorRooms ==
    [][(\E i \in 1..Len(store.rooms) : ~HasId(store'.rooms, store.rooms[i].id))
          => Dangling(store'.rooms) = {}]_vars

\* C36: every path in explored_paths has an observation for it in the
\* observations log; a path is not left marked as explored when the oracle
\* call that carried it returned no result for it.
C36_ExploredPathsObserved ==
    \A path \in explored_paths :
        \E i \in 1..Len(observations) : observations[i].plan = path

HoldsEmptyPath(room) == InSeq(<<>>, room.paths)

\* C37: at any time at most one candidate of the store has the empty path
\* among its paths, whatever label the oracle reports for the start node.
C37_OneRootCandidate ==
    Cardinality({i \in 1..Len(store.rooms) : HoldsEmptyPath(store.rooms[i])}) <= 1

AbsoluteIdOf(room) ==
    get_absolute_room_mapping(store.rooms)[get_fingerprint(room, TRUE)]

\* C38: when the solution is assembled, two different complete candidates
\* never have the same absolute id, so the emitted rooms list has exactly one
\* entry per complete candidate.
C38_OneEntryPerComplete ==
    op = "generate_solution" =>
        /\ \A i, j \in CompleteIdx :
              i # j => AbsoluteIdOf(store.rooms[i]) # AbsoluteIdOf(store.rooms[j])
        /\ solution.status = "emitted" =>
              Len(solution.rooms) = Cardinality(CompleteIdx)

DoorsOf(plan) == SelectSeq(plan, LAMBDA t : ~IsEdit(t))
NodeAfter(g, plan, k) == NodeAt(g, g.start, DoorsOf(SubSeq(plan, 1, k)))

\* the label a plan shows after its k-th step when only its own earlier
\* edits count: the edit itself, or the latest own edit made at the node
\* reached, or the original label of that node
OwnEditsBefore(g, plan, k) ==
    {j \in 1..(k - 1) : IsEdit(plan[j]) /\ NodeAfter(g, plan, j) = NodeAfter(g, plan, k)}
ExpectedLabel(g, plan, k) ==
    IF IsEdit(plan[k]) THEN plan[k] - EditBase
    ELSE IF OwnEditsBefore(g, plan, k) = {} THEN g.label[NodeAfter(g, plan, k)]
    ELSE plan[Max(OwnEditsBefore(g, plan, k))] - EditBase
ExpectedResponse(g, plan) ==
    <<g.label[g.start]>> \o [k \in 1..Len(plan) |-> ExpectedLabel(g, plan, k)]

\* C39: a label edit made inside one plan is visible only to the later steps
\* of that same plan: every plan of every request is answered as if it were
\* executed alone, from the start node, with all nodes carrying their
\* original labels.
C39_EditsStayInPlan ==
    \A c \in 1..Len(store.calls) :
        \A i \in 1..Len(store.calls[c]) :
            mock_explore(graph, store.calls[c])[i]
                = ExpectedResponse(graph, store.calls[c][i])

\* a request in which a plan edits the start node and a later plan of the
\* same request, which starts there, is answered with the original label
C39_Witness ==
    \E c \in 1..Len(store.calls) :
        \E i, j \in 1..Len(store.calls[c]) :
            /\ i < j
            /\ store.calls[c][i] # <<>>
            /\ IsEdit(store.calls[c][i][1])
            /\ store.calls[c][i][1] - EditBase # graph.label[graph.start]
            /\ mock_explore(graph, store.calls[c])[j][1] = graph.label[graph.start]

\* C40: when two candidates are merged after a Same verdict, the survivor is
\* the one that had at least as many known paths as the removed one before
\* the merge.
C40_SurvivorHasMorePaths ==
    \A i \in 1..Len(store.merges) :
        store.merges[i].verdict = "same" =>
            Len(store.merges[i].keeper_paths) >= Len(store.merges[i].victim_paths)
====
